---- MODULE Spec2Model ----
(***************************************************************************)
(* Model of the document parsers of the charlotte backend:                 *)
(*   - AlignRxParser.parse_excel_report  (backend/alignRx_parser.py)       *)
(*   - AlignRxSearchService.check_if_report_exists                         *)
(*   - EDIParser.parse_edi_file and index_transactions                     *)
(*                                       (backend/edi_parser.py)           *)
(*   - EDITransactionExtractor           (backend/edi_preprocessor.py)     *)
(*   - MasterEDIReportParser, parse_pdf  (backend/parse_pdf.py)            *)
(*   - IncrementalIndexUpdater  (backend/incremental_index_updater.py)     *)
(*                                                                         *)
(* A spreadsheet cell is a sequence of text tokens (its text is their      *)
(* concatenation); a row is a sequence of cells, the empty cell standing   *)
(* for a NaN / blank cell.  Amounts are counted in cents.  An optional     *)
(* value (Python None or a value) is the empty or the one-element tuple.   *)
(***************************************************************************)
EXTENDS Integers, Sequences, FiniteSets, TLC

VARIABLES
    aPc,            \* position inside parse_excel_report
    state,          \* the parser's section state
    report_data,    \* the record under construction
    nRows,          \* rows taken from the dataframe so far
    seen,           \* history: payment-shaped rows with the state they met
    searchIndex,    \* documents of the alignrx-reports index
    lookups,        \* history: arguments of the check_if_report_exists calls
    lookupFailed,   \* history: the index call of the lookup raised
    aOutcome,       \* how parse_excel_report ended
    aError,         \* the message of the error it raised
    aResult,        \* the value it returned
    ePc,            \* position inside parse_edi_file
    filename,       \* the file name parse_edi_file works with
    chsFiles,       \* file names present in the edi-transactions index
    masterFiles,    \* file names present in the master-edi index
    chsTraces,      \* trace numbers present in the edi-transactions index
    fileRead,       \* the file was opened and read
    extracted,      \* what extractor.parse_edi_file produced
    checkFailed,    \* history: duplicate checks of parse_edi_file that raised
    traceAnswer,    \* history: answer of check_if_trace_numbers_exist
    raised,         \* history: the exception raised inside the try block
    eOutcome,       \* how parse_edi_file ended
    eError,         \* the message of the error it raised
    eResult,        \* the dictionary it returned
    mode,           \* parses run one at a time, or side by side
    patterns,       \* the pattern table of the extractor
    xPc,            \* position of each call of process_file / parse_pdf
    xCaller,        \* which of the two each call is
    xPdf,           \* the PDF each call was given
    pages,          \* its page texts
    xI,             \* its position in the page loop
    transactions,   \* its transactions so far
    xFrom,          \* history: the page each transaction came from
    xOutcome,       \* how each call ended
    date_str,       \* the text given to _format_date
    formatted,      \* what _format_date returned
    fCalls,         \* how often _format_date was applied
    bPc,            \* position inside the batch caller
    bCaller,        \* which batch caller runs
    blobs,          \* the blobs it goes through
    bI,             \* its position in the loop over the blobs
    bTransactions,  \* the transactions it collected
    bSkipped,       \* history: blobs whose text came out empty
    uDocs,          \* documents prepared by update_search_index_incrementally
    uResult,        \* what update_search_index_incrementally returned
    iList,          \* the list index_transactions was given
    iDocs,          \* documents prepared by index_transactions
    iResult,        \* what index_transactions returned
    iTransactions,  \* the dictionaries index_transactions was given
    iIndexName,     \* the index name it was given
    iUploaded,      \* the documents each index took
    iOutcome,       \* how index_transactions ended
    rPc,            \* position inside perform_incremental_update
    rRun,           \* updates started so far
    rFaults,        \* history: service calls that failed so far
    rFindFault,     \* history: what failed while the files were looked up
    container,      \* the names of the blobs of the source container
    stored,         \* the registry stored in the metadata container
    rRegistry,      \* the registry as this update loaded it
    rListed,        \* history: the PDF blobs whose properties were read
    new_files,      \* the files selected by this update
    rTransactions,  \* the transactions extracted from them
    rSearch,        \* what update_search_index_incrementally returned
    rIndex,         \* the documents the search index took, in order
    rResult,        \* what perform_incremental_update returned
    stored0,        \* history: the stored registry when the update began
    index0,         \* history: the index when the update began
    prevResult,     \* history: what the update before this one returned
    prevFiles       \* history: the files the update before this one selected

varsA == <<aPc, state, report_data, nRows, seen, searchIndex, lookups,
           lookupFailed, aOutcome, aError, aResult>>
varsE == <<ePc, filename, chsFiles, masterFiles, chsTraces, fileRead,
           extracted, checkFailed, traceAnswer, raised, eOutcome, eError,
           eResult>>
varsX == <<patterns, xPc, xCaller, xPdf, pages, xI, transactions, xFrom,
           xOutcome>>
varsF == <<date_str, formatted, fCalls>>
varsU == <<uDocs, uResult>>
varsI == <<iList, iDocs, iResult, iTransactions, iIndexName, iUploaded,
           iOutcome>>
varsB == <<bPc, bCaller, blobs, bI, bTransactions, bSkipped, varsU, varsI>>
varsR == <<rPc, rRun, rFaults, rFindFault, container, stored, rRegistry,
           rListed, new_files, rTransactions, rSearch, rIndex, rResult,
           stored0, index0, prevResult, prevFiles>>
varsN == <<mode, varsX, varsF, varsB, varsR>>
vars == <<varsA, varsE, varsN>>

\* no call has started yet, or the caller runs its parses side by side
Quiet ==
    \/ mode = "concurrent"
    \/ /\ aPc = "idle" /\ ePc = "idle" /\ fCalls = 0 /\ bPc = "idle"
       /\ rPc = "idle"
       /\ \A p \in DOMAIN xPc : xPc[p] = "idle"

(***************************************************************************)
(* Bounds                                                                  *)
(***************************************************************************)
MaxRows == 5

None == <<>>
Some(v) == <<v>>

(***************************************************************************)
(* Text helpers                                                            *)
(***************************************************************************)
\* `lit in text`
Contains(cell, lit) == \E i \in 1..Len(cell) : cell[i] = lit

\* text.startswith(lit)
StartsWith(cell, lit) == Len(cell) > 0 /\ cell[1] = lit

\* text.replace(lit, "").strip()
Remove(cell, lit) == SelectSeq(cell, LAMBDA t : t # lit)

\* datetime.strptime(s, '%m/%d/%Y').date().isoformat() on the texts used here
IsoOfDate ==
    ("06/02/2025" :> "2025-06-02") @@ ("12/31/2024" :> "2024-12-31")

strptime_ok(text) == Len(text) = 1 /\ text[1] \in DOMAIN IsoOfDate

isoformat(text) == IsoOfDate[text[1]]

\* float(text.replace(',', '')) on the texts used here, in cents
CentsOfText ==
    ("250.00" :> 25000) @@ ("1,000.50" :> 100050) @@ ("5.00" :> 500)
    @@ ("245.00" :> 24500) @@ ("0.00" :> 0)

float_ok(text) == Len(text) = 1 /\ text[1] \in DOMAIN CentsOfText

float(text) == CentsOfText[text[1]]

\* payment_line_re = '^(.*?) \(Check # - (.*?)\)' searched in a cell
payment_line_re(cell) ==
    Len(cell) >= 4 /\ cell[2] = " (Check # - " /\ cell[4] = ")"

(***************************************************************************)
(* Sheets                                                                  *)
(***************************************************************************)
Blank == <<>>

Rows == {
    <<>>,
    <<Blank, Blank>>,
    << <<"Pay Date:", "06/02/2025">>, Blank, <<"CAMPUS HEALTH PHARMACY">> >>,
    << <<"Pay Date:", "12/31/2024">>, <<"Store: ", "STUDENT STORES PHARMACY">> >>,
    << <<"Pay Date:", "06/32/2025">>, <<"CAMPUS HEALTH PHARMACY">> >>,
    << <<"Pay Date:", "06/02/2025", " ", "CAMPUS HEALTH PHARMACY">> >>,
    << <<"Central Pay">> >>,
    << <<"Acme Corp", " (Check # - ", "9911", ")">>, Blank, <<"250.00">> >>,
    << <<"Beta Inc", " (Check # - ", "17", ")">>, <<"1,000.50">> >>,
    << <<"Beta Inc", " (Check # - ", "17", ")">>, <<"n/a">> >>,
    << <<"Processing Fee", " (Check # - ", "1", ")">>, <<"5.00">> >>,
    << <<"Processing Fee">>, <<"5.00">> >>,
    << <<"Processing Fee">>, <<"n/a">> >>,
    << Blank, <<"Payment Amount">>, <<"245.00">> >>,
    << <<"Payment Amount">>, <<"0.00">> >>,
    << <<"Payment Amount">>, <<"n/a">> >>
}

\* row_cells = [str(cell).strip() for cell in row if pd.notna(cell) and ...]
row_cells_of(row) == SelectSeq(row, LAMBDA c : c # Blank)

\* `lit in row_str`, row_str = " | ".join(row_cells)
RowContains(cells, lit) == \E i \in 1..Len(cells) : Contains(cells[i], lit)

EmptyReport == [
    date |-> None, destination |-> None, central_payments |-> <<>>,
    processing_fee |-> None, payment_amount |-> None ]

States == <<"SCANNING", "FIND_CENTRAL_PAY", "PARSE_CENTRAL_PAY",
            "FIND_TOTAL", "DONE">>

(***************************************************************************)
(* The body of the row loop                                                *)
(***************************************************************************)
\* one cell of the header row
HeaderCell(rd, cell) ==
    LET d == IF StartsWith(cell, "Pay Date:")
             THEN IF strptime_ok(Remove(cell, "Pay Date:"))
                  THEN [rd EXCEPT !.date = Some(isoformat(Remove(cell, "Pay Date:")))]
                  ELSE [rd EXCEPT !.date = None]
             ELSE rd
    IN IF Contains(cell, "CAMPUS HEALTH PHARMACY")
       THEN [d EXCEPT !.destination = Some("CAMPUS HEALTH PHARMACY")]
       ELSE IF Contains(cell, "STUDENT STORES PHARMACY")
            THEN [d EXCEPT !.destination = Some("STUDENT STORES PHARMACY")]
            ELSE d

RECURSIVE HeaderCells(_, _)
HeaderCells(rd, cells) ==
    IF cells = <<>> THEN rd
    ELSE HeaderCells(HeaderCell(rd, Head(cells)), Tail(cells))

\* variant: the header row moves the parser on whether or not its date parsed
Scanning_advance(rd, cells) ==
    IF RowContains(cells, "Pay Date:")
       /\ (RowContains(cells, "CAMPUS HEALTH PHARMACY")
           \/ RowContains(cells, "STUDENT STORES PHARMACY"))
    THEN [rd |-> HeaderCells(rd, cells), state |-> "FIND_CENTRAL_PAY",
          brk |-> FALSE]
    ELSE [rd |-> rd, state |-> "SCANNING", brk |-> FALSE]

\* state SCANNING
Scanning(rd, cells) ==
    IF RowContains(cells, "Pay Date:")
       /\ (RowContains(cells, "CAMPUS HEALTH PHARMACY")
           \/ RowContains(cells, "STUDENT STORES PHARMACY"))
    THEN LET rd2 == HeaderCells(rd, cells)
         IN [rd |-> rd2,
             state |-> IF rd2.date # None /\ rd2.destination # None
                       THEN "FIND_CENTRAL_PAY" ELSE "SCANNING",
             brk |-> FALSE]
    ELSE [rd |-> rd, state |-> "SCANNING", brk |-> FALSE]

\* variant: the row that opens the section clears the date
FindCentralPay_reset(rd, cells) ==
    [rd |-> IF RowContains(cells, "Central Pay")
            THEN [rd EXCEPT !.date = None] ELSE rd,
     state |-> IF RowContains(cells, "Central Pay")
               THEN "PARSE_CENTRAL_PAY" ELSE "FIND_CENTRAL_PAY",
     brk |-> FALSE]

\* state FIND_CENTRAL_PAY
FindCentralPay(rd, cells) ==
    [rd |-> rd,
     state |-> IF RowContains(cells, "Central Pay")
               THEN "PARSE_CENTRAL_PAY" ELSE "FIND_CENTRAL_PAY",
     brk |-> FALSE]

CentralPayment(first_cell, last_cell) ==
    [sender |-> first_cell[1], check_num |-> first_cell[3],
     amount |-> float(last_cell)]

\* variant: the fee row jumps straight to DONE
ParseCentralPay_skip(rd, cells) ==
    LET first_cell == cells[1]
        last_cell == cells[Len(cells)]
    IN IF payment_line_re(first_cell)
       THEN [rd |-> IF float_ok(last_cell)
                    THEN [rd EXCEPT !.central_payments =
                             Append(@, CentralPayment(first_cell, last_cell))]
                    ELSE rd,
             state |-> "PARSE_CENTRAL_PAY", brk |-> FALSE]
       ELSE IF Contains(first_cell, "Processing Fee")
            THEN [rd |-> IF float_ok(last_cell)
                         THEN [rd EXCEPT !.processing_fee = Some(float(last_cell))]
                         ELSE rd,
                  state |-> "DONE", brk |-> TRUE]
            ELSE [rd |-> rd, state |-> "PARSE_CENTRAL_PAY", brk |-> FALSE]

\* variant: the fee test comes before the payment-line test
ParseCentralPay_feefirst(rd, cells) ==
    LET first_cell == cells[1]
        last_cell == cells[Len(cells)]
    IN IF Contains(first_cell, "Processing Fee")
       THEN [rd |-> IF float_ok(last_cell)
                    THEN [rd EXCEPT !.processing_fee = Some(float(last_cell))]
                    ELSE rd,
             state |-> "FIND_TOTAL", brk |-> FALSE]
       ELSE IF payment_line_re(first_cell)
            THEN [rd |-> IF float_ok(last_cell)
                         THEN [rd EXCEPT !.central_payments =
                                  Append(@, CentralPayment(first_cell, last_cell))]
                         ELSE rd,
                  state |-> "PARSE_CENTRAL_PAY", brk |-> FALSE]
            ELSE [rd |-> rd, state |-> "PARSE_CENTRAL_PAY", brk |-> FALSE]

\* variant: a fee line whose amount does not parse keeps the parser in
\* the section
ParseCentralPay_feestay(rd, cells) ==
    LET first_cell == cells[1]
        last_cell == cells[Len(cells)]
    IN IF payment_line_re(first_cell)
       THEN [rd |-> IF float_ok(last_cell)
                    THEN [rd EXCEPT !.central_payments =
                             Append(@, CentralPayment(first_cell, last_cell))]
                    ELSE rd,
             state |-> "PARSE_CENTRAL_PAY", brk |-> FALSE]
       ELSE IF Contains(first_cell, "Processing Fee")
            THEN IF float_ok(last_cell)
                 THEN [rd |-> [rd EXCEPT !.processing_fee = Some(float(last_cell))],
                       state |-> "FIND_TOTAL", brk |-> FALSE]
                 ELSE [rd |-> rd, state |-> "PARSE_CENTRAL_PAY", brk |-> FALSE]
            ELSE [rd |-> rd, state |-> "PARSE_CENTRAL_PAY", brk |-> FALSE]

\* state PARSE_CENTRAL_PAY
ParseCentralPay(rd, cells) ==
    LET first_cell == cells[1]
        last_cell == cells[Len(cells)]
    IN IF payment_line_re(first_cell)
       THEN [rd |-> IF float_ok(last_cell)
                    THEN [rd EXCEPT !.central_payments =
                             Append(@, CentralPayment(first_cell, last_cell))]
                    ELSE rd,
             state |-> "PARSE_CENTRAL_PAY", brk |-> FALSE]
       ELSE IF Contains(first_cell, "Processing Fee")
            THEN [rd |-> IF float_ok(last_cell)
                         THEN [rd EXCEPT !.processing_fee = Some(float(last_cell))]
                         ELSE rd,
                  state |-> "FIND_TOTAL", brk |-> FALSE]
            ELSE [rd |-> rd, state |-> "PARSE_CENTRAL_PAY", brk |-> FALSE]

\* variant: the total line does not end the scan
FindTotal_nobreak(rd, cells) ==
    LET first_cell == cells[1]
        last_cell == cells[Len(cells)]
    IN IF Contains(first_cell, "Payment Amount")
       THEN [rd |-> IF float_ok(last_cell)
                    THEN [rd EXCEPT !.payment_amount = Some(float(last_cell))]
                    ELSE rd,
             state |-> "DONE", brk |-> FALSE]
       ELSE [rd |-> rd, state |-> "FIND_TOTAL", brk |-> FALSE]

\* state FIND_TOTAL
FindTotal(rd, cells) ==
    LET first_cell == cells[1]
        last_cell == cells[Len(cells)]
    IN IF Contains(first_cell, "Payment Amount")
       THEN [rd |-> IF float_ok(last_cell)
                    THEN [rd EXCEPT !.payment_amount = Some(float(last_cell))]
                    ELSE rd,
             state |-> "DONE", brk |-> TRUE]
       ELSE [rd |-> rd, state |-> "FIND_TOTAL", brk |-> FALSE]

\* one iteration of `for row in df.itertuples(...)`
RowStep(st, rd, row) ==
    LET cells == row_cells_of(row)
    IN IF cells = <<>> THEN [rd |-> rd, state |-> st, brk |-> FALSE]
       ELSE IF st = "SCANNING" THEN Scanning(rd, cells)
       ELSE IF st = "FIND_CENTRAL_PAY" THEN FindCentralPay(rd, cells)
       ELSE IF st = "PARSE_CENTRAL_PAY" THEN ParseCentralPay(rd, cells)
       ELSE IF st = "FIND_TOTAL" THEN FindTotal(rd, cells)
       ELSE [rd |-> rd, state |-> st, brk |-> FALSE]

(***************************************************************************)
(* The alignrx-reports index and its composite-key lookup                  *)
(***************************************************************************)
SecondsPerDay == 86400

\* an indexed report: pay_date is a timestamp (day, second of the day)
IndexDoc(day, sec, dest, amount) ==
    [pay_date |-> [day |-> day, sec |-> sec], destination |-> dest,
     payment_amount |-> amount]

\* contents the index may have when it is asked
Indexes == {
    {},
    {IndexDoc("2025-06-02", 0, "CAMPUS HEALTH PHARMACY", 24500)},
    {IndexDoc("2025-06-02", 43200, "CAMPUS HEALTH PHARMACY", 24500),
     IndexDoc("2024-12-31", 0, "CAMPUS HEALTH PHARMACY", 24500)},
    {IndexDoc("2025-06-02", 0, "STUDENT STORES PHARMACY", 24500),
     IndexDoc("2025-06-02", 0, "CAMPUS HEALTH PHARMACY", 25000),
     IndexDoc("2024-12-31", 0, "CAMPUS HEALTH PHARMACY", 24500)}
}

\* variant: the filter asks for the exact timestamp <day>T00:00:00Z
filter_expr_exact(doc, pay_date, destination, payment_amount) ==
    /\ Some(doc.pay_date.day) = pay_date
    /\ doc.pay_date.sec = 0
    /\ Some(doc.destination) = destination
    /\ Some(doc.payment_amount) = payment_amount

\* the filter expression: pay_date ge <day>T00:00:00Z and pay_date le
\* <day>T23:59:59Z and destination eq ... and payment_amount eq ...
filter_expr(doc, pay_date, destination, payment_amount) ==
    /\ Some(doc.pay_date.day) = pay_date
    /\ doc.pay_date.sec >= 0 /\ doc.pay_date.sec <= SecondsPerDay - 1
    /\ Some(doc.destination) = destination
    /\ Some(doc.payment_amount) = payment_amount

\* variant: a failed search is answered "exists"
check_if_report_exists_failclosed(index, raises, pay_date, destination, payment_amount) ==
    IF raises THEN TRUE
    ELSE \E doc \in index :
            /\ Some(doc.pay_date.day) = pay_date
            /\ Some(doc.destination) = destination
            /\ Some(doc.payment_amount) = payment_amount

\* AlignRxSearchService.check_if_report_exists (arguments as report_data.get
\* gives them); raises: the search call raised
check_if_report_exists(index, raises, pay_date, destination, payment_amount) ==
    IF raises THEN FALSE
    ELSE \E doc \in index :
            filter_expr(doc, pay_date, destination, payment_amount)

(***************************************************************************)
(* AlignRxParser.parse_excel_report                                        *)
(***************************************************************************)
\* variant: payment_amount is not required
required_fields_noamount == <<"date", "destination">>

required_fields == <<"date", "destination", "payment_amount">>

\* `not report_data.get(field)`
Falsy(rd, field) ==
    IF field = "payment_amount"
    THEN rd.payment_amount = None \/ rd.payment_amount = Some(0)
    ELSE rd[field] = None

missing_fields(rd) == SelectSeq(required_fields, LAMBDA f : Falsy(rd, f))

\* the text of the ValueError: the missing fields and the final state
error_msg(rd, st) == [missing |-> missing_fields(rd), final_state |-> st]

\* pd.read_excel raises: the function prints and returns None
ReadExcelFails ==
    /\ aPc = "idle" /\ Quiet
    /\ aPc' = "done"
    /\ aOutcome' = "None"
    /\ aResult' = None
    /\ UNCHANGED <<state, report_data, nRows, seen, searchIndex, lookups,
                   lookupFailed, aError>>
    /\ UNCHANGED <<varsE, varsN>>

\* pd.read_excel succeeds: report_data and state are initialised
ReadExcel ==
    /\ aPc = "idle" /\ Quiet
    /\ aPc' = "loop"
    /\ state' = "SCANNING"
    /\ report_data' = EmptyReport
    /\ aOutcome' = "running"
    /\ UNCHANGED <<nRows, seen, searchIndex, lookups, lookupFailed, aError,
                   aResult>>
    /\ UNCHANGED <<varsE, varsN>>

\* the row's first cell has the payment-line shape
PaymentShaped(row) ==
    row_cells_of(row) # <<>> /\ payment_line_re(row_cells_of(row)[1])

\* the loop takes the next row of the sheet
ProcessRow(row) ==
    /\ aPc = "loop"
    /\ nRows < MaxRows
    /\ LET r == RowStep(state, report_data, row)
       IN /\ state' = r.state
          /\ report_data' = r.rd
          /\ aPc' = IF r.brk THEN "validate" ELSE "loop"
    /\ nRows' = nRows + 1
    /\ seen' = IF PaymentShaped(row)
               THEN Append(seen, [state |-> state, row |-> row])
               ELSE seen
    /\ UNCHANGED <<searchIndex, lookups, lookupFailed, aOutcome, aError,
                   aResult>>
    /\ UNCHANGED <<varsE, varsN>>

\* the sheet has no more rows
EndOfRows ==
    /\ aPc = "loop"
    /\ aPc' = "validate"
    /\ UNCHANGED <<state, report_data, nRows, seen, searchIndex, lookups,
                   lookupFailed, aOutcome, aError, aResult>>
    /\ UNCHANGED <<varsE, varsN>>

\* variant: the lookup is made whatever the validation found
Validate_lookup ==
    /\ aPc = "validate"
    /\ aPc' = "lookup"
    /\ UNCHANGED <<aOutcome, aError>>
    /\ UNCHANGED <<state, report_data, nRows, seen, searchIndex, lookups,
                   lookupFailed, aResult>>
    /\ UNCHANGED <<varsE, varsN>>

\* the required-field validation after the loop
Validate ==
    /\ aPc = "validate"
    /\ IF missing_fields(report_data) # <<>>
       THEN /\ aPc' = "done"
            /\ aOutcome' = "ValueError"
            /\ aError' = Some(error_msg(report_data, state))
       ELSE /\ aPc' = "lookup"
            /\ UNCHANGED <<aOutcome, aError>>
    /\ UNCHANGED <<state, report_data, nRows, seen, searchIndex, lookups,
                   lookupFailed, aResult>>
    /\ UNCHANGED <<varsE, varsN>>

\* the duplicate lookup and the return
Lookup ==
    /\ aPc = "lookup"
    /\ \E index \in Indexes, raises \in BOOLEAN :
          /\ searchIndex' = index
          /\ lookupFailed' = raises
          /\ lookups' = Append(lookups, <<report_data.date,
                                          report_data.destination,
                                          report_data.payment_amount>>)
          /\ IF check_if_report_exists(index, raises, report_data.date,
                                       report_data.destination,
                                       report_data.payment_amount)
             THEN /\ aOutcome' = "DuplicateReportError"
                  /\ aResult' = None
             ELSE /\ aOutcome' = "returned"
                  /\ aResult' = Some(report_data)
    /\ aPc' = "done"
    /\ UNCHANGED <<state, report_data, nRows, seen, aError>>
    /\ UNCHANGED <<varsE, varsN>>

NextAlignRx ==
    \/ ReadExcelFails
    \/ ReadExcel
    \/ \E row \in Rows : ProcessRow(row)
    \/ EndOfRows
    \/ Validate
    \/ Lookup

InitAlignRx ==
    /\ aPc = "idle"
    /\ state = "SCANNING"
    /\ report_data = EmptyReport
    /\ nRows = 0
    /\ seen = <<>>
    /\ searchIndex = {}
    /\ lookups = <<>>
    /\ lookupFailed = FALSE
    /\ aOutcome = "idle"
    /\ aError = None
    /\ aResult = None

InitEDI ==
    /\ ePc = "idle"
    /\ filename = "none"
    /\ chsFiles = {}
    /\ masterFiles = {}
    /\ chsTraces = {}
    /\ fileRead = FALSE
    /\ extracted = None
    /\ checkFailed = {}
    /\ traceAnswer = None
    /\ raised = None
    /\ eOutcome = "idle"
    /\ eError = None
    /\ eResult = None

(***************************************************************************)
(* The EDI collaborators of parse_edi_file                                 *)
(***************************************************************************)
MaxTx == 2

FilePaths == { <<"uploads", "a.pdf">>, <<"tmp", "b.pdf">> }

FileNames == {"a.pdf", "b.pdf"}

\* os.path.basename
basename(file_path) == file_path[Len(file_path)]

\* the CHS originator allow-list
CHS_ORIGINATORS == {"BCBS of NC", "NC Medicaid"}

\* extracted transaction objects: <<trace number, amount, originator, line items>>
Transactions == {
    <<"T1", 123456, "BCBS of NC", <<>> >>,
    <<"T2", 5000, "Other Payer", <<"L1", "L2">> >>,
    <<"T3", 700, "NC Medicaid", <<"L1">> >>,
    <<"T4", 900, "bcbs of nc", <<"L3">> >>
}

TxSeqs == UNION { [1..n -> Transactions] : n \in 0..MaxTx }

\* variant: the copy keeps its line items
ChsCopy_keeplines(t) == <<t[1], t[2], t[3], t[4]>>

\* the CHS copy of a transaction: line_items cleared
ChsCopy(t) == <<t[1], t[2], t[3], <<>> >>

RECURSIVE ChsSubset(_)
ChsSubset(txs) ==
    IF txs = <<>> THEN <<>>
    ELSE IF Head(txs)[3] \in CHS_ORIGINATORS
         THEN <<ChsCopy(Head(txs))>> \o ChsSubset(Tail(txs))
         ELSE ChsSubset(Tail(txs))

\* extractor.parse_edi_file(pdf_bytes, filename): all transactions, the CHS
\* subset and the CHS trace numbers
extractor_parse_edi_file(txs) ==
    [all_transactions |-> txs,
     chs_transactions |-> ChsSubset(txs),
     chs_trace_numbers |-> [i \in 1..Len(ChsSubset(txs)) |-> ChsSubset(txs)[i][1]]]

\* EDITransaction.to_dict
to_dict(t, fname) ==
    [trace_number |-> t[1], amount |-> t[2], originator |-> t[3],
     line_items |-> t[4], file_name |-> fname]

\* [t.to_dict() for t in transactions]
to_dicts(txs, fname) == [i \in 1..Len(txs) |-> to_dict(txs[i], fname)]

\* EDISearchService.check_if_file_exists
check_if_file_exists(files, fname) == fname \in files

\* EDISearchService.check_if_trace_numbers_exist
check_if_trace_numbers_exist(traces, trace_numbers) ==
    \E i \in 1..Len(trace_numbers) : trace_numbers[i] \in traces

TraceIndexes == { {}, {"T1"}, {"T3", "T9"} }

(***************************************************************************)
(* EDIParser.parse_edi_file                                                *)
(***************************************************************************)
\* the call: filename defaults to the base name of file_path
CallParseEdi ==
    /\ ePc = "idle" /\ Quiet
    /\ \E file_path \in FilePaths, arg \in {None} \cup {Some(f) : f \in FileNames} :
          filename' = IF arg = None THEN basename(file_path) ELSE arg[1]
    /\ \E chs \in SUBSET FileNames, master \in SUBSET FileNames :
          /\ chsFiles' = chs
          /\ masterFiles' = master
    /\ ePc' = "check_chs"
    /\ eOutcome' = "running"
    /\ UNCHANGED <<chsTraces, fileRead, extracted, checkFailed, traceAnswer,
                   raised, eError, eResult>>
    /\ UNCHANGED <<varsA, varsN>>

\* an exception that leaves parse_edi_file outside its try block
Propagate(check) ==
    /\ ePc' = "done"
    /\ eOutcome' = "Exception"
    /\ checkFailed' = checkFailed \cup {check}
    /\ UNCHANGED eError

\* variant: the duplicate is only logged and the parse goes on
RaiseDuplicate_continue(index_name) ==
    /\ ePc' = "read"
    /\ UNCHANGED <<eOutcome, eError, checkFailed>>

\* raise DuplicateReportError(f"Transactions from file '{filename}' ...")
RaiseDuplicate(index_name) ==
    /\ ePc' = "done"
    /\ eOutcome' = "DuplicateReportError"
    /\ eError' = Some([file |-> filename, text |-> index_name])
    /\ UNCHANGED checkFailed

\* file-level duplicate check against the CHS index
CheckChsFile ==
    /\ ePc = "check_chs"
    /\ \E raises \in BOOLEAN :
          IF raises THEN Propagate("file_chs")
          ELSE IF check_if_file_exists(chsFiles, filename)
               THEN RaiseDuplicate("CHS search index")
               ELSE /\ ePc' = "check_master"
                    /\ UNCHANGED <<eOutcome, eError, checkFailed>>
    /\ UNCHANGED <<filename, chsFiles, masterFiles, chsTraces, fileRead,
                   extracted, traceAnswer, raised, eResult>>
    /\ UNCHANGED <<varsA, varsN>>

\* file-level duplicate check against the master index
CheckMasterFile ==
    /\ ePc = "check_master"
    /\ \E raises \in BOOLEAN :
          IF raises THEN Propagate("file_master")
          ELSE IF check_if_file_exists(masterFiles, filename)
               THEN RaiseDuplicate("Master EDI search index")
               ELSE /\ ePc' = "read"
                    /\ UNCHANGED <<eOutcome, eError, checkFailed>>
    /\ UNCHANGED <<filename, chsFiles, masterFiles, chsTraces, fileRead,
                   extracted, traceAnswer, raised, eResult>>
    /\ UNCHANGED <<varsA, varsN>>

\* variant: no `except DuplicateReportError: raise` clause
HandleException_noreraise(kind, fname, text) ==
    [outcome |-> "ValueError", error |-> Some([file |-> fname, text |-> text])]

\* variant: the message does not carry the file name
HandleException_nofile(kind, fname, text) ==
    IF kind = "DuplicateReportError"
    THEN [outcome |-> "DuplicateReportError", error |-> Some([file |-> "", text |-> text])]
    ELSE [outcome |-> "ValueError", error |-> Some([file |-> "", text |-> text])]

\* the handlers of the try block: a DuplicateReportError is re-raised, any
\* other exception becomes ValueError(f"Failed to parse EDI file {filename}: {e}")
HandleException(kind, fname, text) ==
    IF kind = "DuplicateReportError"
    THEN [outcome |-> "DuplicateReportError", error |-> Some([file |-> "", text |-> text])]
    ELSE [outcome |-> "ValueError", error |-> Some([file |-> fname, text |-> text])]

\* an exception raised inside the try block
RaiseInTry(kind, text) ==
    /\ ePc' = "done"
    /\ raised' = Some(kind)
    /\ eOutcome' = HandleException(kind, filename, text).outcome
    /\ eError' = HandleException(kind, filename, text).error

\* open(file_path, 'rb') and f.read()
ReadFile ==
    /\ ePc = "read"
    /\ \E ok \in BOOLEAN :
          IF ok THEN /\ fileRead' = TRUE
                     /\ ePc' = "extract"
                     /\ UNCHANGED <<raised, eOutcome, eError>>
          ELSE /\ RaiseInTry("OSError", "cannot open")
               /\ UNCHANGED fileRead
    /\ UNCHANGED <<filename, chsFiles, masterFiles, chsTraces, extracted,
                   checkFailed, traceAnswer, eResult>>
    /\ UNCHANGED <<varsA, varsN>>

\* the extractor call and the test for an empty result
Extract ==
    /\ ePc = "extract"
    /\ \/ \E txs \in TxSeqs :
             LET r == extractor_parse_edi_file(txs)
             IN IF r.all_transactions = <<>>
                THEN /\ RaiseInTry("ValueError", "No all transactions found")
                     /\ UNCHANGED extracted
                ELSE /\ extracted' = Some(r)
                     /\ ePc' = "trace_check"
                     /\ UNCHANGED <<raised, eOutcome, eError>>
       \/ \E kind \in {"Exception", "DuplicateReportError"} :
             /\ RaiseInTry(kind, "extractor failed")
             /\ UNCHANGED extracted
    /\ UNCHANGED <<filename, chsFiles, masterFiles, chsTraces, fileRead,
                   checkFailed, traceAnswer, eResult>>
    /\ UNCHANGED <<varsA, varsN>>

\* variant: a failed trace-number check counts as a duplicate
chs_duplicate_of_failclosed(chs_trace_numbers, answer) ==
    IF chs_trace_numbers = <<>> THEN FALSE
    ELSE IF answer = None THEN TRUE
    ELSE answer[1]

\* chs_duplicate: the answer of the trace-number check; answer is None when
\* the check raised
chs_duplicate_of(chs_trace_numbers, answer) ==
    IF chs_trace_numbers = <<>> THEN FALSE
    ELSE IF answer = None THEN FALSE
    ELSE answer[1]

\* variant: a CHS duplicate drops the whole file
result_dict_allornothing(r, fname, chs_duplicate) ==
    [all_transactions |-> IF chs_duplicate THEN <<>>
                          ELSE to_dicts(r.all_transactions, fname),
     chs_transactions |-> to_dicts(r.chs_transactions, fname),
     file_name |-> fname,
     all_transaction_count |-> IF chs_duplicate THEN 0
                               ELSE Len(to_dicts(r.all_transactions, fname)),
     chs_transaction_count |-> Len(to_dicts(r.chs_transactions, fname)),
     chs_duplicate |-> chs_duplicate]

\* the dictionary returned by parse_edi_file
result_dict(r, fname, chs_duplicate) ==
    [all_transactions |-> to_dicts(r.all_transactions, fname),
     chs_transactions |-> to_dicts(r.chs_transactions, fname),
     file_name |-> fname,
     all_transaction_count |-> Len(to_dicts(r.all_transactions, fname)),
     chs_transaction_count |-> Len(to_dicts(r.chs_transactions, fname)),
     chs_duplicate |-> chs_duplicate]

\* the trace-number check and the return
TraceCheck ==
    /\ ePc = "trace_check"
    /\ LET r == extracted[1]
       IN \E traces \in TraceIndexes, raises \in BOOLEAN :
             LET called == r.chs_trace_numbers # <<>>
                 answer == IF called /\ ~raises
                           THEN Some(check_if_trace_numbers_exist(
                                       traces, r.chs_trace_numbers))
                           ELSE None
             IN /\ chsTraces' = traces
                /\ traceAnswer' = answer
                /\ checkFailed' = IF called /\ raises
                                  THEN checkFailed \cup {"trace"}
                                  ELSE checkFailed
                /\ eResult' = Some(result_dict(r, filename,
                                 chs_duplicate_of(r.chs_trace_numbers, answer)))
    /\ ePc' = "done"
    /\ eOutcome' = "returned"
    /\ UNCHANGED <<filename, chsFiles, masterFiles, fileRead, extracted,
                   raised, eError>>
    /\ UNCHANGED <<varsA, varsN>>

NextEDI ==
    \/ CallParseEdi
    \/ CheckChsFile
    \/ CheckMasterFile
    \/ ReadFile
    \/ Extract
    \/ TraceCheck

(***************************************************************************)
(* Date texts of the PDF extractors, character by character                *)
(***************************************************************************)
DigitValue ==
    ("0" :> 0) @@ ("1" :> 1) @@ ("2" :> 2) @@ ("3" :> 3) @@ ("4" :> 4)
    @@ ("5" :> 5) @@ ("6" :> 6) @@ ("7" :> 7) @@ ("8" :> 8) @@ ("9" :> 9)

DigitChar == <<"0", "1", "2", "3", "4", "5", "6", "7", "8", "9">>

\* s.isdigit() for a non-empty s
IsDigits(s) == Len(s) > 0 /\ \A i \in 1..Len(s) : s[i] \in DOMAIN DigitValue

\* int(s) for a text of digits
RECURSIVE int(_)
int(s) ==
    IF s = <<>> THEN 0
    ELSE 10 * int(SubSeq(s, 1, Len(s) - 1)) + DigitValue[s[Len(s)]]

\* str(n) for a natural number
RECURSIVE str(_)
str(n) ==
    IF n < 10 THEN <<DigitChar[n + 1]>>
    ELSE str(n \div 10) \o <<DigitChar[(n % 10) + 1]>>

\* s.split(sep)
RECURSIVE split(_, _)
split(s, sep) ==
    IF \A i \in 1..Len(s) : s[i] # sep THEN <<s>>
    ELSE LET i == CHOOSE k \in 1..Len(s) :
                      s[k] = sep /\ \A j \in 1..(k - 1) : s[j] # sep
         IN  <<SubSeq(s, 1, i - 1)>> \o split(SubSeq(s, i + 1, Len(s)), sep)

\* calendar.monthrange(year, month)[1]
DaysInMonth(year, month) ==
    IF month = 2
    THEN IF (year % 4 = 0 /\ year % 100 # 0) \/ year % 400 = 0 THEN 29 ELSE 28
    ELSE IF month \in {4, 6, 9, 11} THEN 30 ELSE 31

\* datetime.strptime(text, '%m/%d/%Y'): the date, or None for ValueError.
\* %m and %d take one or two digits, %Y exactly four.
strptime(text) ==
    LET f == split(text, "/")
    IN  IF /\ Len(f) = 3
           /\ \A i \in 1..3 : IsDigits(f[i])
           /\ Len(f[1]) \in 1..2 /\ int(f[1]) \in 1..12
           /\ Len(f[2]) \in 1..2 /\ int(f[2]) >= 1
           /\ Len(f[3]) = 4 /\ int(f[3]) >= 1
           /\ int(f[2]) <= DaysInMonth(int(f[3]), int(f[1]))
        THEN Some([year |-> int(f[3]), month |-> int(f[1]), day |-> int(f[2])])
        ELSE None

\* '%02d' % n
zfill2(n) == IF n < 10 THEN <<"0">> \o str(n) ELSE str(n)

\* date_obj.strftime('%Y-%m-%d'); the C library's %Y writes the year without
\* padding, %m and %d with two digits
strftime(d) ==
    str(d.year) \o <<"-">> \o zfill2(d.month) \o <<"-">> \o zfill2(d.day)

\* EDITransactionExtractor._format_date
format_date(text) ==
    IF text # <<>> /\ (\E i \in 1..Len(text) : text[i] = "/")
       /\ strptime(text) # None
    THEN strftime(strptime(text)[1])
    ELSE text

\* date texts handed to _format_date
Chars_03_15_2025 == <<"0", "3", "/", "1", "5", "/", "2", "0", "2", "5">>

Chars_2025_03_15 == <<"2", "0", "2", "5", "-", "0", "3", "-", "1", "5">>

DateTexts == {
    <<>>,
    Chars_03_15_2025,
    Chars_2025_03_15,
    <<"1", "2", "/", "3", "1", "/", "2", "0", "2", "4">>,
    <<"0", "2", "/", "2", "9", "/", "2", "0", "2", "4">>,
    <<"0", "2", "/", "3", "0", "/", "2", "0", "2", "5">>,
    <<"1", "3", "/", "0", "1", "/", "2", "0", "2", "5">>,
    <<"3", "/", "5", "/", "2", "0", "2", "5">>,
    <<"0", "3", "/", "1", "5", "/", "2", "5">>,
    <<"0", "3", "/", "1", "5", "/", "0", "9", "9", "9">>,
    <<"2", "0", "2", "5", "/", "0", "3", "/", "1", "5">>,
    <<"N", "/", "A">>,
    <<"2", "0", "2", "5", "0", "3", "1", "5">>
}

(***************************************************************************)
(* Report text of the PDF extractors                                       *)
(*                                                                         *)
(* The text of a report is a sequence of labelled items: a label of the    *)
(* report grammar with the text that follows it.  A date item carries its  *)
(* text character by character in `chars`.                                 *)
(***************************************************************************)
MaxPages == 2

MaxBlobs == 2

Tok(label, text) == [label |-> label, text |-> text, chars |-> <<>>]

DateTok(chars) == [label |-> "EFFECTIVE DATE:", text |-> "", chars |-> chars]

\* the page header 'NORTH CAROLINA STATE TREASURER ... PAGE: n'
HeaderLabel == "NORTH CAROLINA STATE TREASURER PAGE:"

Header(n) == Tok(HeaderLabel, DigitChar[n + 1])

\* self.patterns: the label each field is searched under
Patterns == [
    credit_amount |-> "CREDIT:", effective_date |-> "EFFECTIVE DATE:",
    page_number |-> "PAGE:", routing_id_credit |-> "ROUTING ID:",
    company_id |-> "COMPANY ID:", trace_number |-> "TRACE NUMBER:",
    originator |-> "ORIGINATOR:" ]

\* texts matched by \d+ and by [A-Za-z0-9]+
DigitTexts == {"0", "1", "2", "3", "111", "222", "999"}

AlnumTexts == DigitTexts \cup {"ABC123", "T2", "T4"}

\* group(1) of 'CREDIT:\s*\$?([\d,]+\.?\d*)' on the text after the label
CreditGroup ==
    ("$1,234.56" :> "1,234.56") @@ ("500.00" :> "500.00")
    @@ ("0.00" :> "0.00") @@ ("," :> ",")

\* amount_str.replace(',', '')
NoCommas ==
    ("1,234.56" :> "1234.56") @@ ("500.00" :> "500.00")
    @@ ("0.00" :> "0.00") @@ ("," :> "")

\* float(amount_str) in cents; a text outside the table raises ValueError
FloatCents == ("1234.56" :> 123456) @@ ("500.00" :> 50000) @@ ("0.00" :> 0)

\* the label of the item is the literal the pattern starts with
HasLabel(tok, label) ==
    \/ tok.label = label
    \/ label = "PAGE:" /\ tok.label = HeaderLabel

\* the date text starts with \d{2}/\d{2}/\d{4}
DateShaped(c) ==
    /\ Len(c) >= 10
    /\ \A i \in {1, 2, 4, 5, 7, 8, 9, 10} : c[i] \in DOMAIN DigitValue
    /\ c[3] = "/" /\ c[6] = "/"

\* the pattern of the field matches at this item
MatchesAt(pats, field, tok) ==
    /\ HasLabel(tok, pats[field])
    /\ CASE field = "credit_amount" -> tok.text \in DOMAIN CreditGroup
         [] field = "effective_date" -> DateShaped(tok.chars)
         [] field = "trace_number" -> tok.text \in AlnumTexts
         [] field = "originator" -> tok.text # ""
         [] OTHER -> tok.text \in DigitTexts

\* re.findall(self.patterns[field], page_text): the items that match
findall(pats, field, page_text) ==
    SelectSeq(page_text, LAMBDA tok : MatchesAt(pats, field, tok))

\* self._extract_field(page_text, field): group(1) of the first match or ""
extract_field(pats, field, page_text) ==
    IF findall(pats, field, page_text) = <<>> THEN ""
    ELSE findall(pats, field, page_text)[1].text

\* the effective date: group(1) of the first match, then _format_date
extract_effective_date(pats, page_text) ==
    IF findall(pats, "effective_date", page_text) = <<>> THEN <<>>
    ELSE format_date(SubSeq(findall(pats, "effective_date", page_text)[1].chars, 1, 10))

\* `literal in page_text`
InText(page_text, label) ==
    \E i \in 1..Len(page_text) : HasLabel(page_text[i], label)

\* variant: the company id of the debit party is the second one or nothing
OtherFields_nofallback(pats, page_text, file_name) ==
    LET routing_ids == findall(pats, "routing_id_credit", page_text)
        company_ids == findall(pats, "company_id", page_text)
    IN  [ effective_date |-> extract_effective_date(pats, page_text),
          page_number |-> extract_field(pats, "page_number", page_text),
          routing_id_credit |->
              IF Len(routing_ids) > 0 THEN routing_ids[1].text ELSE "",
          routing_id_debit |->
              IF Len(routing_ids) > 1 THEN routing_ids[2].text ELSE "",
          company_id_debit |->
              IF Len(company_ids) > 1 THEN company_ids[2].text ELSE "",
          trace_number |-> extract_field(pats, "trace_number", page_text),
          originator |-> extract_field(pats, "originator", page_text),
          input_format |-> "ACHCCD+",
          file_name |-> file_name ]

\* the fields filled after the amount, common to both extractors
OtherFields(pats, page_text, file_name) ==
    LET routing_ids == findall(pats, "routing_id_credit", page_text)
        company_ids == findall(pats, "company_id", page_text)
    IN  [ effective_date |-> extract_effective_date(pats, page_text),
          page_number |-> extract_field(pats, "page_number", page_text),
          routing_id_credit |->
              IF Len(routing_ids) > 0 THEN routing_ids[1].text ELSE "",
          routing_id_debit |->
              IF Len(routing_ids) > 1 THEN routing_ids[2].text ELSE "",
          company_id_debit |->
              IF Len(company_ids) > 1 THEN company_ids[2].text
              ELSE IF company_ids # <<>> THEN company_ids[1].text ELSE "",
          trace_number |-> extract_field(pats, "trace_number", page_text),
          originator |-> extract_field(pats, "originator", page_text),
          input_format |-> "ACHCCD+",
          file_name |-> file_name ]

WithAmount(fields, amount) ==
    [f \in DOMAIN fields \cup {"amount"} |->
        IF f = "amount" THEN amount ELSE fields[f]]

\* EDITransactionExtractor.parse_page_content: a Transaction or None
parse_page_content(pats, page_text, file_name) ==
    LET credit_match == findall(pats, "credit_amount", page_text)
    IN  IF credit_match = <<>> THEN None
        ELSE LET amount_str == NoCommas[CreditGroup[credit_match[1].text]]
             IN  IF amount_str \notin DOMAIN FloatCents THEN None
                 ELSE Some(WithAmount(OtherFields(pats, page_text, file_name),
                                      FloatCents[amount_str]))

\* MasterEDIReportParser.parse_page_content: a Transaction or None
master_parse_page_content(pats, page_text, file_name) ==
    LET credit_match == findall(pats, "credit_amount", page_text)
    IN  IF credit_match = <<>> THEN None
        ELSE LET amount_str == NoCommas[CreditGroup[credit_match[1].text]]
             IN  Some(WithAmount(OtherFields(pats, page_text, file_name),
                                 IF amount_str \in DOMAIN FloatCents
                                 THEN FloatCents[amount_str] ELSE 0))

\* the positions of the page headers in the text
HeaderPositions(text) == {i \in 1..Len(text) : text[i].label = HeaderLabel}

\* split_pages: the text from each page header up to the next one; the text
\* in front of the first header is dropped
RECURSIVE split_pages(_)
split_pages(text) ==
    IF HeaderPositions(text) = {} THEN <<>>
    ELSE LET first == CHOOSE i \in HeaderPositions(text) :
                          \A j \in HeaderPositions(text) : i <= j
             rest == SubSeq(text, first + 1, Len(text))
             stop == IF HeaderPositions(rest) = {} THEN Len(rest) + 1
                     ELSE CHOOSE i \in HeaderPositions(rest) :
                              \A j \in HeaderPositions(rest) : i <= j
         IN  <<SubSeq(text, first, first + stop - 1)>>
             \o split_pages(SubSeq(rest, stop, Len(rest)))

\* the test of the page loop
IsTransactionPage(page_text) ==
    InText(page_text, "PAYMENT INFORMATION:") /\ InText(page_text, "CREDIT:")

(***************************************************************************)
(* Reports                                                                 *)
(***************************************************************************)
PI == Tok("PAYMENT INFORMATION:", "")

Credit(text) == Tok("CREDIT:", text)

Routing(text) == Tok("ROUTING ID:", text)

Company(text) == Tok("COMPANY ID:", text)

Trace(text) == Tok("TRACE NUMBER:", text)

Originator(text) == Tok("ORIGINATOR:", text)

Letterhead == Tok("OFFICE OF THE STATE TREASURER", "")

FullPage ==
    <<PI, Credit("$1,234.56"), DateTok(Chars_03_15_2025), Routing("111"),
      Routing("222"), Company("999"), Company("222"), Trace("ABC123"),
      Originator("BCBS of NC")>>

SinglePartyPage ==
    <<PI, Credit("500.00"), Routing("111"), Company("999"), Trace("T2")>>

NoCreditPage == <<PI, Trace("T4")>>

BadAmountPage == <<PI, Credit(","), Trace("T4")>>

UnmatchedCreditPage == <<PI, Credit("N/A")>>

ZeroAmountPage == <<PI, Credit("0.00"), Trace("T2")>>

\* one transaction printed over two pages
FirstHalfPage == <<PI, Credit("500.00"), Routing("111")>>

SecondHalfPage ==
    <<Routing("222"), Company("999"), Trace("ABC123"),
      Originator("NC Medicaid")>>

CoverPage == <<Letterhead>>

Bodies == {FullPage, SinglePartyPage, NoCreditPage, BadAmountPage,
           UnmatchedCreditPage, ZeroAmountPage, FirstHalfPage,
           SecondHalfPage, CoverPage}

\* the text in front of the first page header
Preambles == {<<>>, CoverPage, SinglePartyPage}

\* the pages of a report, each under its header
RECURSIVE Paginate(_, _)
Paginate(bodies, n) ==
    IF bodies = <<>> THEN <<>>
    ELSE <<Header(n)>> \o Head(bodies) \o Paginate(Tail(bodies), n + 1)

BodySeqs(max) == UNION { [1..n -> Bodies] : n \in 0..max }

Texts == { pre \o Paginate(bs, 1) : pre \in Preambles, bs \in BodySeqs(MaxPages) }

\* a PDF: unreadable, or readable with the text of its pages
Unreadable == [readable |-> FALSE, text |-> <<>>]

Pdf(text) == [readable |-> TRUE, text |-> text]

Pdfs == {Unreadable} \cup { Pdf(t) : t \in Texts }

\* extract_text_from_pdf / extract_text_from_pdf_bytes: "" on any exception
extract_text_from_pdf(pdf) == IF pdf.readable THEN pdf.text ELSE <<>>

Procs == {1, 2}

\* the name of the file each call works on
FileOf == <<"a.pdf", "b.pdf">>

\* the parser of each caller
ParserOf(caller, pats, page_text, file_name) ==
    IF caller = "parse_pdf"
    THEN master_parse_page_content(pats, page_text, file_name)
    ELSE parse_page_content(pats, page_text, file_name)

\* parse_pdf falls back to the raw page texts when no header is found; a
\* report without header is one raw page
PagesOf(caller, text) ==
    IF caller = "parse_pdf" /\ split_pages(text) = <<>> /\ text # <<>>
    THEN <<text>>
    ELSE split_pages(text)

(***************************************************************************)
(* process_file and parse_pdf: the page loop of one report                 *)
(***************************************************************************)
Callers == {"process_file", "parse_pdf"}

\* the call up to the page loop.  process_file returns [] for an empty text;
\* parse_pdf returns {} when the reader raises.
CallParse(p, caller, pdf) ==
    /\ xPc[p] = "idle"
    /\ xCaller' = [xCaller EXCEPT ![p] = caller]
    /\ xPdf' = [xPdf EXCEPT ![p] = pdf]
    /\ IF caller = "process_file" /\ extract_text_from_pdf(pdf) = <<>>
       THEN /\ xPc' = [xPc EXCEPT ![p] = "done"]
            /\ xOutcome' = [xOutcome EXCEPT ![p] = "returned"]
            /\ UNCHANGED pages
       ELSE IF caller = "parse_pdf" /\ ~pdf.readable
       THEN /\ xPc' = [xPc EXCEPT ![p] = "done"]
            /\ xOutcome' = [xOutcome EXCEPT ![p] = "{}"]
            /\ UNCHANGED pages
       ELSE /\ xPc' = [xPc EXCEPT ![p] = "loop"]
            /\ xOutcome' = [xOutcome EXCEPT ![p] = "running"]
            /\ pages' = [pages EXCEPT
                           ![p] = PagesOf(caller, extract_text_from_pdf(pdf))]
    /\ UNCHANGED <<patterns, xI, transactions, xFrom>>

\* one call at a time
CallParseAlone ==
    /\ Quiet
    /\ \E caller \in Callers, pdf \in Pdfs : CallParse(1, caller, pdf)
    /\ UNCHANGED <<mode, varsA, varsE, varsF, varsB, varsR>>

\* variant: the loop ends at the first page that gives no transaction
PageStep_stop(p) ==
    /\ xPc[p] = "loop"
    /\ xI[p] <= Len(pages[p])
    /\ LET page_text == pages[p][xI[p]]
           transaction == ParserOf(xCaller[p], patterns, page_text, FileOf[p])
       IN  IF IsTransactionPage(page_text) /\ transaction # None
           THEN /\ transactions' = [transactions EXCEPT
                                      ![p] = Append(@, transaction[1])]
                /\ xFrom' = [xFrom EXCEPT ![p] = Append(@, xI[p])]
                /\ xI' = [xI EXCEPT ![p] = @ + 1]
           ELSE /\ UNCHANGED <<transactions, xFrom>>
                /\ xI' = [xI EXCEPT ![p] = Len(pages[p]) + 1]
    /\ UNCHANGED <<patterns, xPc, xCaller, xPdf, pages, xOutcome>>
    /\ UNCHANGED <<mode, varsA, varsE, varsF, varsB, varsR>>

\* variant: the transactions are collected in one list shared by all calls
PageStep_shared(p) ==
    /\ xPc[p] = "loop"
    /\ xI[p] <= Len(pages[p])
    /\ LET page_text == pages[p][xI[p]]
           transaction == ParserOf(xCaller[p], patterns, page_text, FileOf[p])
       IN  IF IsTransactionPage(page_text) /\ transaction # None
           THEN /\ transactions' = [q \in Procs |->
                                      Append(transactions[q], transaction[1])]
                /\ xFrom' = [q \in Procs |-> Append(xFrom[q], xI[p])]
           ELSE UNCHANGED <<transactions, xFrom>>
    /\ xI' = [xI EXCEPT ![p] = @ + 1]
    /\ UNCHANGED <<patterns, xPc, xCaller, xPdf, pages, xOutcome>>
    /\ UNCHANGED <<mode, varsA, varsE, varsF, varsB, varsR>>

\* one pass of `for page_text in pages`
PageStep(p) ==
    /\ xPc[p] = "loop"
    /\ xI[p] <= Len(pages[p])
    /\ LET page_text == pages[p][xI[p]]
           transaction == ParserOf(xCaller[p], patterns, page_text, FileOf[p])
       IN  IF IsTransactionPage(page_text) /\ transaction # None
           THEN /\ transactions' = [transactions EXCEPT
                                      ![p] = Append(@, transaction[1])]
                /\ xFrom' = [xFrom EXCEPT ![p] = Append(@, xI[p])]
           ELSE UNCHANGED <<transactions, xFrom>>
    /\ xI' = [xI EXCEPT ![p] = @ + 1]
    /\ UNCHANGED <<patterns, xPc, xCaller, xPdf, pages, xOutcome>>
    /\ UNCHANGED <<mode, varsA, varsE, varsF, varsB, varsR>>

\* the loop is over: the transactions are returned
ReturnParse(p) ==
    /\ xPc[p] = "loop"
    /\ xI[p] > Len(pages[p])
    /\ xPc' = [xPc EXCEPT ![p] = "done"]
    /\ xOutcome' = [xOutcome EXCEPT ![p] = "returned"]
    /\ UNCHANGED <<patterns, xCaller, xPdf, pages, xI, transactions, xFrom>>
    /\ UNCHANGED <<mode, varsA, varsE, varsF, varsB, varsR>>

InitExtract ==
    /\ patterns = Patterns
    /\ xPc = [p \in Procs |-> "idle"]
    /\ xCaller = [p \in Procs |-> "none"]
    /\ xPdf = [p \in Procs |-> Unreadable]
    /\ pages = [p \in Procs |-> <<>>]
    /\ xI = [p \in Procs |-> 1]
    /\ transactions = [p \in Procs |-> <<>>]
    /\ xFrom = [p \in Procs |-> <<>>]
    /\ xOutcome = [p \in Procs |-> "idle"]

NextExtract ==
    \/ CallParseAlone
    \/ PageStep(1)
    \/ ReturnParse(1)

(***************************************************************************)
(* _format_date applied to a text, and again to its own result             *)
(***************************************************************************)
CallFormatDate ==
    /\ Quiet
    /\ \E d \in DateTexts :
          /\ date_str' = d
          /\ formatted' = format_date(d)
    /\ fCalls' = 1
    /\ UNCHANGED <<mode, varsA, varsE, varsX, varsB, varsR>>

CallFormatDateAgain ==
    /\ fCalls = 1
    /\ formatted' = format_date(formatted)
    /\ fCalls' = 2
    /\ UNCHANGED date_str
    /\ UNCHANGED <<mode, varsA, varsE, varsX, varsB, varsR>>

InitFormat ==
    /\ date_str = <<>>
    /\ formatted = <<>>
    /\ fCalls = 0

NextFormat ==
    \/ CallFormatDate
    \/ CallFormatDateAgain

(***************************************************************************)
(* The batch callers: process_all_blobs and process_files_incrementally    *)
(***************************************************************************)
\* the page loop of the batch callers, run over all pages of one report
RECURSIVE PageLoop(_, _, _, _)
PageLoop(caller, pats, page_texts, file_name) ==
    IF page_texts = <<>> THEN <<>>
    ELSE LET transaction ==
                 ParserOf(caller, pats, Head(page_texts), file_name)
         IN  (IF IsTransactionPage(Head(page_texts)) /\ transaction # None
              THEN <<transaction[1]>> ELSE <<>>)
             \o PageLoop(caller, pats, Tail(page_texts), file_name)

\* Transaction.to_dict
transaction_to_dict(t) ==
    [trace_number |-> t.trace_number, amount |-> t.amount,
     effective_date |-> t.effective_date, originator |-> t.originator,
     page_number |-> t.page_number,
     routing_id_credit |-> t.routing_id_credit,
     routing_id_debit |-> t.routing_id_debit,
     company_id_debit |-> t.company_id_debit,
     input_format |-> t.input_format, file_name |-> t.file_name]

PdfNames == {"a.pdf", "b.pdf", "c.pdf", "d.pdf", "e.pdf"}

\* blob_name.lower().endswith('.pdf')
endswith_pdf(blob_name) == blob_name \in PdfNames

\* blobs of the source container
Blobs == {
    [name |-> "a.pdf", downloads |-> TRUE,
     pdf |-> Pdf(<<Header(1)>> \o FullPage)],
    [name |-> "b.pdf", downloads |-> TRUE, pdf |-> Unreadable],
    [name |-> "c.pdf", downloads |-> TRUE, pdf |-> Pdf(<<>>)],
    [name |-> "d.pdf", downloads |-> FALSE, pdf |-> Unreadable],
    [name |-> "e.pdf", downloads |-> TRUE,
     pdf |-> Pdf(<<Header(1)>> \o SinglePartyPage \o <<Header(2)>>
                 \o BadAmountPage \o <<Header(3)>> \o ZeroAmountPage)],
    [name |-> "notes.txt", downloads |-> TRUE,
     pdf |-> Pdf(<<Header(1)>> \o FullPage)]
}

BlobSeqs == UNION { [1..n -> Blobs] : n \in 0..MaxBlobs }

BatchCallers == {"process_all_blobs", "process_files_incrementally"}

\* the call up to the loop over the blobs; process_all_blobs returns [] when
\* the Azure configuration is missing
CallBatch ==
    /\ Quiet
    /\ \E caller \in BatchCallers, bs \in BlobSeqs, configured \in BOOLEAN :
          /\ bCaller' = caller
          /\ blobs' = bs
          /\ bPc' = IF caller = "process_all_blobs" /\ ~configured
                    THEN "done" ELSE "loop"
    /\ UNCHANGED <<bI, bTransactions, bSkipped, varsU, varsI>>
    /\ UNCHANGED <<mode, varsA, varsE, varsX, varsF, varsR>>

\* the transactions one blob adds to the batch: none when the blob is not a
\* PDF (process_all_blobs), when the download raises or when no text comes out
BlobTransactions(caller, pats, blob) ==
    IF caller = "process_all_blobs" /\ ~endswith_pdf(blob.name) THEN <<>>
    ELSE IF ~blob.downloads THEN <<>>
    ELSE IF extract_text_from_pdf(blob.pdf) = <<>> THEN <<>>
    ELSE LET found == PageLoop(caller, pats,
                               split_pages(extract_text_from_pdf(blob.pdf)),
                               blob.name)
         IN  IF caller = "process_files_incrementally"
             THEN [i \in 1..Len(found) |-> transaction_to_dict(found[i])]
             ELSE found

\* variant: an empty text ends the batch with nothing
BlobStep_abort ==
    /\ bPc = "loop"
    /\ bI <= Len(blobs)
    /\ bTransactions' =
           IF /\ blobs[bI].downloads
              /\ extract_text_from_pdf(blobs[bI].pdf) = <<>>
           THEN <<>>
           ELSE bTransactions \o BlobTransactions(bCaller, patterns, blobs[bI])
    /\ bPc' = IF /\ blobs[bI].downloads
                 /\ extract_text_from_pdf(blobs[bI].pdf) = <<>>
              THEN "done" ELSE "loop"
    /\ bSkipped' =
           IF /\ bCaller = "process_files_incrementally"
                 \/ endswith_pdf(blobs[bI].name)
              /\ blobs[bI].downloads
              /\ extract_text_from_pdf(blobs[bI].pdf) = <<>>
           THEN bSkipped \cup {bI} ELSE bSkipped
    /\ bI' = bI + 1
    /\ UNCHANGED <<bCaller, blobs, varsU, varsI>>
    /\ UNCHANGED <<mode, varsA, varsE, varsX, varsF, varsR>>

\* one pass of the loop over the blobs
BlobStep ==
    /\ bPc = "loop"
    /\ bI <= Len(blobs)
    /\ bTransactions' =
           bTransactions \o BlobTransactions(bCaller, patterns, blobs[bI])
    /\ bSkipped' =
           IF /\ bCaller = "process_files_incrementally"
                 \/ endswith_pdf(blobs[bI].name)
              /\ blobs[bI].downloads
              /\ extract_text_from_pdf(blobs[bI].pdf) = <<>>
           THEN bSkipped \cup {bI} ELSE bSkipped
    /\ bI' = bI + 1
    /\ UNCHANGED <<bPc, bCaller, blobs, varsU, varsI>>
    /\ UNCHANGED <<mode, varsA, varsE, varsX, varsF, varsR>>

\* process_all_blobs: listing the container raises, [] is returned
ListBlobsFails ==
    /\ bPc = "loop"
    /\ bCaller = "process_all_blobs"
    /\ bTransactions' = <<>>
    /\ bPc' = "done"
    /\ UNCHANGED <<bCaller, blobs, bI, bSkipped, varsU, varsI>>
    /\ UNCHANGED <<mode, varsA, varsE, varsX, varsF, varsR>>

\* the loop is over: the transactions are returned
ReturnBatch ==
    /\ bPc = "loop"
    /\ bI > Len(blobs)
    /\ bPc' = "done"
    /\ UNCHANGED <<bCaller, blobs, bI, bTransactions, bSkipped, varsU, varsI>>
    /\ UNCHANGED <<mode, varsA, varsE, varsX, varsF, varsR>>

(***************************************************************************)
(* IncrementalIndexUpdater.update_search_index_incrementally               *)
(***************************************************************************)
\* total_transactions reported by the index statistics
Counts == {0, 9}

\* variant: the documents are built from the end of the list
search_documents_reversed(new_transactions, current_count) ==
    [i \in 1..Len(new_transactions) |->
        LET t == new_transactions[Len(new_transactions) + 1 - i]
        IN  [id |-> str(current_count + i),
             trace_number |-> t.trace_number, amount |-> t.amount,
             effective_date |-> t.effective_date,
             originator |-> t.originator, page_number |-> t.page_number,
             routing_id_credit |-> t.routing_id_credit,
             routing_id_debit |-> t.routing_id_debit,
             company_id_debit |-> t.company_id_debit,
             file_name |-> t.file_name]]

\* the documents prepared for the upload, numbered from current_count + 1
search_documents(new_transactions, current_count) ==
    [i \in 1..Len(new_transactions) |->
        [id |-> str(current_count + i),
         trace_number |-> new_transactions[i].trace_number,
         amount |-> new_transactions[i].amount,
         effective_date |-> new_transactions[i].effective_date,
         originator |-> new_transactions[i].originator,
         page_number |-> new_transactions[i].page_number,
         routing_id_credit |-> new_transactions[i].routing_id_credit,
         routing_id_debit |-> new_transactions[i].routing_id_debit,
         company_id_debit |-> new_transactions[i].company_id_debit,
         file_name |-> new_transactions[i].file_name]]

\* the whole call, on the transactions of process_files_incrementally
UpdateSearchIndex ==
    /\ bPc = "done"
    /\ bCaller = "process_files_incrementally"
    /\ bPc' = "updated"
    /\ IF bTransactions = <<>>
       THEN /\ uResult' = Some(TRUE)
            /\ UNCHANGED uDocs
       ELSE \E fate \in {"raises", "rejected", "uploaded"},
               current_count \in Counts :
               /\ uDocs' = IF fate = "raises" THEN <<>>
                           ELSE search_documents(bTransactions, current_count)
               /\ uResult' = Some(fate = "uploaded")
    /\ UNCHANGED <<bCaller, blobs, bI, bTransactions, bSkipped, varsI>>
    /\ UNCHANGED <<mode, varsA, varsE, varsX, varsF, varsR>>

(***************************************************************************)
(* EDIParser.index_transactions                                            *)
(***************************************************************************)
IndexNames == {"edi-transactions", "master-edi", "unknown-index"}

\* the i-th identifier drawn from uuid.uuid4()
uuid4(i) == <<"uuid4", i>>

\* transaction.get(key, default)
get(transaction, key, default) ==
    IF key \in DOMAIN transaction THEN transaction[key] ELSE default

\* the keys a transaction dictionary may carry besides the common ones
OptionalKeys == {"demand_account_credit", "line_items", "input_format"}

KeySets == { {}, {"line_items"}, {"input_format"}, OptionalKeys }

OptionalValue ==
    [demand_account_credit |-> "000123", line_items |-> <<>>,
     input_format |-> "ACHCCD+"]

\* the dictionary a caller passes: the common keys of the transaction and
\* the optional keys of the set given
transaction_dict(t, keys) ==
    [k \in (DOMAIN t \ OptionalKeys) \cup keys |->
        IF k \in DOMAIN t THEN t[k] ELSE OptionalValue[k]]

\* variant: the fields of master-edi are copied for every index
index_document_unfiltered(transaction, index_name, i) ==
    [id |-> uuid4(i),
     trace_number |-> get(transaction, "trace_number", ""),
     amount |-> get(transaction, "amount", 0),
     originator |-> get(transaction, "originator", ""),
     file_name |-> get(transaction, "file_name", "")]
    @@ [k \in OptionalKeys \cap DOMAIN transaction |-> transaction[k]]

\* the document of one transaction dictionary
index_document(transaction, index_name, i) ==
    [id |-> uuid4(i),
     trace_number |-> get(transaction, "trace_number", ""),
     amount |-> get(transaction, "amount", 0),
     originator |-> get(transaction, "originator", ""),
     file_name |-> get(transaction, "file_name", "")]
    @@ (IF index_name = "master-edi"
        THEN [k \in OptionalKeys \cap DOMAIN transaction |-> transaction[k]]
        ELSE [k \in {} |-> ""])

index_documents(txs, index_name) ==
    [i \in 1..Len(txs) |-> index_document(txs[i], index_name, i)]

\* variant: an unknown index name falls back to the master index
search_service_of_fallback(index_name) ==
    IF index_name = "edi-transactions" THEN Some("edi-transactions")
    ELSE Some("master-edi")

\* the search service of the index, none for an invalid name (ValueError)
search_service_of(index_name) ==
    IF index_name = "edi-transactions" THEN Some("edi-transactions")
    ELSE IF index_name = "master-edi" THEN Some("master-edi")
    ELSE None

\* what upload_documents does with the documents
UploadOutcomes == {"uploaded", "partial", "rejected", "raises"}

\* the whole call, on one of the two lists parse_edi_file returned
IndexTransactions ==
    /\ ePc = "done"
    /\ eOutcome = "returned"
    /\ ePc' = "indexed"
    /\ \E list \in {"all_transactions", "chs_transactions"},
          keys \in KeySets, index_name \in IndexNames,
          fate \in UploadOutcomes :
          LET txs == [i \in 1..Len(eResult[1][list]) |->
                         transaction_dict(eResult[1][list][i], keys)]
              docs == index_documents(txs, index_name)
              service == search_service_of(index_name)
          IN  /\ iList' = list
              /\ iTransactions' = txs
              /\ iIndexName' = index_name
              /\ iOutcome' = "returned"
              /\ IF txs = <<>>
                 THEN /\ iDocs' = <<>>
                      /\ iResult' = Some(FALSE)
                      /\ UNCHANGED iUploaded
                 ELSE /\ iDocs' = docs
                      /\ IF service = None
                         THEN /\ iResult' = Some(FALSE)
                              /\ UNCHANGED iUploaded
                         ELSE /\ iUploaded' =
                                   [iUploaded EXCEPT ![service[1]] =
                                       IF fate = "uploaded" THEN @ \o docs
                                       ELSE IF fate = "partial"
                                            THEN Append(@, docs[1])
                                            ELSE @]
                              /\ iResult' =
                                   Some(fate \in {"uploaded", "partial"})
    /\ UNCHANGED <<bPc, bCaller, blobs, bI, bTransactions, bSkipped, varsU>>
    /\ UNCHANGED <<filename, chsFiles, masterFiles, chsTraces, fileRead,
                   extracted, checkFailed, traceAnswer, raised, eOutcome,
                   eError, eResult>>
    /\ UNCHANGED <<mode, varsA, varsX, varsF, varsR>>

InitBatch ==
    /\ bPc = "idle"
    /\ bCaller = "none"
    /\ blobs = <<>>
    /\ bI = 1
    /\ bTransactions = <<>>
    /\ bSkipped = {}
    /\ uDocs = <<>>
    /\ uResult = None
    /\ iList = "none"
    /\ iDocs = <<>>
    /\ iResult = None
    /\ iTransactions = <<>>
    /\ iIndexName = "none"
    /\ iUploaded = [n \in {"edi-transactions", "master-edi"} |-> <<>>]
    /\ iOutcome = "idle"

NextBatch ==
    \/ CallBatch
    \/ BlobStep
    \/ ListBlobsFails
    \/ ReturnBatch
    \/ UpdateSearchIndex
    \/ IndexTransactions

(***************************************************************************)
(* IncrementalIndexUpdater.perform_incremental_update                      *)
(***************************************************************************)
MaxRuns == 2

\* failures of the storage and search services within one behaviour
MaxFaults == 1

\* the blob of the source container with that name
BlobNamed(blob_name) == CHOOSE b \in Blobs : b.name = blob_name

\* the source container, as list_blobs goes through it
SourceContainers == {
    <<>>,
    <<"a.pdf">>,
    <<"a.pdf", "d.pdf">>,
    <<"e.pdf", "a.pdf">>,
    <<"b.pdf", "notes.txt", "a.pdf">>
}

\* get_blob_info: the size and the modification time of a blob
BlobSize ==
    ("a.pdf" :> 2048) @@ ("b.pdf" :> 512) @@ ("c.pdf" :> 0)
    @@ ("d.pdf" :> 4096) @@ ("e.pdf" :> 8192) @@ ("notes.txt" :> 64)

get_blob_info(blob_name) ==
    [name |-> blob_name, size |-> BlobSize[blob_name],
     last_modified |-> "2025-03-15T10:00:00+00:00"]

\* ProcessedFileInfo
ProcessedFileInfo(name, modified, size, at, count) ==
    [filename |-> name, last_modified |-> modified, size |-> size,
     processed_at |-> at, transaction_count |-> count]

\* the registry with no entry
EmptyRegistry == [n \in {} |-> ProcessedFileInfo("", "", 0, 0, 0)]

\* registries the metadata container may hold before the first run
Registries == {
    EmptyRegistry,
    [n \in {"a.pdf"} |->
        ProcessedFileInfo(n, "2025-03-15T10:00:00+00:00", BlobSize[n], 0, 1)],
    [n \in {"a.pdf"} |->
        ProcessedFileInfo(n, "2025-01-01T08:00:00+00:00", BlobSize[n], 0, 1)],
    [n \in {"a.pdf"} |->
        ProcessedFileInfo(n, "2025-03-15T10:00:00+00:00", 1024, 0, 1)],
    [n \in {"a.pdf", "b.pdf", "gone.pdf"} |->
        ProcessedFileInfo(n, "2025-03-15T10:00:00+00:00",
                          IF n = "gone.pdf" THEN 1 ELSE BlobSize[n], 0, 0)]
}

\* what goes wrong in a step: nothing, or one call that fails
NoFault == <<"none", "">>

FindFaults(listing) ==
    {NoFault, <<"load", "">>, <<"list", "">>}
    \cup { <<"info", listing[i]>> : i \in 1..Len(listing) }

\* load_processed_files_registry: {} when the blob cannot be read
load_processed_files_registry(registry_blob, fault) ==
    IF fault[1] = "load" THEN EmptyRegistry ELSE registry_blob

\* current_blobs: the PDF blobs whose properties could be read
current_blobs(listing, fault) ==
    SelectSeq(listing,
              LAMBDA n : endswith_pdf(n) /\ fault # <<"info", n>>)

\* the test of `for blob_name, blob_info in current_blobs.items()`
IsNewOrUpdated(registry, blob_name) ==
    \/ blob_name \notin DOMAIN registry
    \/ get_blob_info(blob_name).last_modified # registry[blob_name].last_modified
    \/ get_blob_info(blob_name).size # registry[blob_name].size

\* find_new_and_updated_files: [] when listing the container raises
find_new_and_updated_files(registry, listing, fault) ==
    IF fault[1] = "list" THEN <<>>
    ELSE SelectSeq(current_blobs(listing, fault),
                   LAMBDA n : IsNewOrUpdated(registry, n))

\* process_files_incrementally over the whole file list
RECURSIVE process_files_incrementally(_, _)
process_files_incrementally(pats, file_list) ==
    IF file_list = <<>> THEN <<>>
    ELSE BlobTransactions("process_files_incrementally", pats,
                          BlobNamed(Head(file_list)))
         \o process_files_incrementally(pats, Tail(file_list))

\* transaction_counts[file_name]
transaction_count_of(new_transactions, file_name) ==
    Len(SelectSeq(new_transactions, LAMBDA t : t.file_name = file_name))

\* update_registry_for_processed_files: a file whose properties cannot be
\* read is left out
update_registry_for_processed_files(processed_files, new_transactions, registry, fault, current_time) ==
    LET recorded == { processed_files[i] : i \in 1..Len(processed_files) }
                    \ (IF fault[1] = "info" THEN {fault[2]} ELSE {})
    IN  [n \in DOMAIN registry \cup recorded |->
            IF n \in recorded
            THEN ProcessedFileInfo(n, get_blob_info(n).last_modified,
                                   get_blob_info(n).size, current_time,
                                   transaction_count_of(new_transactions, n))
            ELSE registry[n]]

\* the dictionaries perform_incremental_update returns
NoNewFiles ==
    [success |-> TRUE, message |-> "No new files to process",
     new_files_count |-> 0, transactions_added |-> 0,
     processed_files |-> <<>>, registry_updated |-> None, error |-> None]

Processed(files, total_transactions, registry_saved) ==
    [success |-> TRUE, message |-> "Successfully processed",
     new_files_count |-> Len(files), transactions_added |-> total_transactions,
     processed_files |-> files, registry_updated |-> Some(registry_saved),
     error |-> None]

IndexFailed(files) ==
    [success |-> FALSE, message |-> "Failed to update search index",
     new_files_count |-> Len(files), transactions_added |-> 0,
     processed_files |-> files, registry_updated |-> None, error |-> None]

UpdateError ==
    [success |-> FALSE, message |-> "Error during incremental update",
     new_files_count |-> 0, transactions_added |-> 0,
     processed_files |-> <<>>, registry_updated |-> None,
     error |-> Some("Exception")]

\* the call up to `if not new_files`, on the container and the stored
\* registry given
FindFiles(listing, registry_blob) ==
    \E fault \in FindFaults(listing) :
       /\ fault = NoFault \/ rFaults < MaxFaults
       /\ rFaults' = IF fault = NoFault THEN rFaults ELSE rFaults + 1
       /\ rFindFault' = fault
       /\ rRegistry' = load_processed_files_registry(registry_blob, fault)
       /\ rListed' = IF fault[1] = "list" THEN <<>>
                     ELSE current_blobs(listing, fault)
       /\ new_files' = find_new_and_updated_files(rRegistry', listing, fault)
       /\ IF new_files' = <<>>
          THEN /\ rPc' = "done"
               /\ rResult' = Some(NoNewFiles)
          ELSE /\ rPc' = "found"
               /\ rResult' = None
       /\ rRun' = rRun + 1
       /\ rTransactions' = <<>>
       /\ rSearch' = None
       /\ stored0' = registry_blob
       /\ index0' = rIndex
       /\ prevResult' = rResult
       /\ prevFiles' = new_files

\* the first update
CallUpdate ==
    /\ rPc = "idle" /\ Quiet
    /\ \E listing \in SourceContainers, registry_blob \in Registries :
          /\ container' = listing
          /\ stored' = registry_blob
          /\ FindFiles(listing, registry_blob)
    /\ UNCHANGED rIndex
    /\ UNCHANGED <<mode, varsA, varsE, varsX, varsF, varsB>>

\* a further update, the source container being as it was
CallUpdateAgain ==
    /\ rPc = "done"
    /\ rRun < MaxRuns
    /\ FindFiles(container, stored)
    /\ UNCHANGED <<container, stored, rIndex>>
    /\ UNCHANGED <<mode, varsA, varsE, varsX, varsF, varsB>>

\* new_transactions, total_transactions = process_files_incrementally(...)
ProcessFiles ==
    /\ rPc = "found"
    /\ rTransactions' = process_files_incrementally(patterns, new_files)
    /\ rPc' = "processed"
    /\ UNCHANGED <<rRun, rFaults, rFindFault, container, stored, rRegistry,
                   rListed, new_files, rSearch, rIndex, rResult, stored0,
                   index0, prevResult, prevFiles>>
    /\ UNCHANGED <<mode, varsA, varsE, varsX, varsF, varsB>>

UploadFates == {"uploaded", "partial", "rejected", "raises", "nostats"}

\* search_success = update_search_index_incrementally(new_transactions):
\* upload_documents answers whether any document was taken
UpdateIndex ==
    /\ rPc = "processed"
    /\ IF rTransactions = <<>>
       THEN /\ rSearch' = Some(TRUE)
            /\ UNCHANGED <<rIndex, rFaults>>
       ELSE \E fate \in UploadFates :
               LET current_count == IF fate = "nostats" THEN 0 ELSE Len(rIndex)
                   docs == search_documents(rTransactions, current_count)
               IN  /\ fate = "uploaded" \/ rFaults < MaxFaults
                   /\ rFaults' = IF fate = "uploaded" THEN rFaults
                                 ELSE rFaults + 1
                   /\ rIndex' = IF fate \in {"uploaded", "nostats"}
                                THEN rIndex \o docs
                                ELSE IF fate = "partial"
                                     THEN Append(rIndex, docs[1])
                                     ELSE rIndex
                   /\ rSearch' = Some(fate \in {"uploaded", "nostats", "partial"})
    /\ rPc' = "indexed"
    /\ UNCHANGED <<rRun, rFindFault, container, stored, rRegistry, rListed,
                   new_files, rTransactions, rResult, stored0, index0,
                   prevResult, prevFiles>>
    /\ UNCHANGED <<mode, varsA, varsE, varsX, varsF, varsB>>

RegistryFaults(files) ==
    {NoFault, <<"save", "">>} \cup { <<"info", files[i]>> : i \in 1..Len(files) }

\* variant: the registry is saved whatever the upload step answered
FinishUpdate_save ==
    /\ rPc = "indexed"
    /\ \E fault \in RegistryFaults(new_files) :
          LET updated_registry ==
                  update_registry_for_processed_files(
                      new_files, rTransactions, rRegistry, fault, rRun)
          IN  /\ fault = NoFault \/ rFaults < MaxFaults
              /\ rFaults' = IF fault = NoFault THEN rFaults ELSE rFaults + 1
              /\ stored' = IF fault[1] = "save" THEN stored
                           ELSE updated_registry
              /\ rResult' = IF rSearch = Some(TRUE)
                            THEN Some(Processed(new_files, Len(rTransactions),
                                                fault[1] # "save"))
                            ELSE Some(IndexFailed(new_files))
    /\ rPc' = "done"
    /\ UNCHANGED <<rRun, rFindFault, container, rRegistry, rListed, new_files,
                   rTransactions, rSearch, rIndex, stored0, index0,
                   prevResult, prevFiles>>
    /\ UNCHANGED <<mode, varsA, varsE, varsX, varsF, varsB>>

\* `if search_success:` and what follows: the registry is updated and saved
\* and the summary is returned, or the failure is returned
FinishUpdate ==
    /\ rPc = "indexed"
    /\ IF rSearch = Some(TRUE)
       THEN \E fault \in RegistryFaults(new_files) :
               LET updated_registry ==
                       update_registry_for_processed_files(
                           new_files, rTransactions, rRegistry, fault, rRun)
               IN  /\ fault = NoFault \/ rFaults < MaxFaults
                   /\ rFaults' = IF fault = NoFault THEN rFaults
                                 ELSE rFaults + 1
                   /\ stored' = IF fault[1] = "save" THEN stored
                                ELSE updated_registry
                   /\ rResult' = Some(Processed(new_files, Len(rTransactions),
                                                fault[1] # "save"))
       ELSE /\ rResult' = Some(IndexFailed(new_files))
            /\ UNCHANGED <<stored, rFaults>>
    /\ rPc' = "done"
    /\ UNCHANGED <<rRun, rFindFault, container, rRegistry, rListed, new_files,
                   rTransactions, rSearch, rIndex, stored0, index0,
                   prevResult, prevFiles>>
    /\ UNCHANGED <<mode, varsA, varsE, varsX, varsF, varsB>>

\* an exception escapes one of the steps: the outer handler returns the error
UpdateRaises ==
    /\ rPc \in {"found", "processed", "indexed"}
    /\ rFaults < MaxFaults
    /\ rFaults' = rFaults + 1
    /\ rResult' = Some(UpdateError)
    /\ rPc' = "done"
    /\ UNCHANGED <<rRun, rFindFault, container, stored, rRegistry, rListed,
                   new_files, rTransactions, rSearch, rIndex, stored0, index0,
                   prevResult, prevFiles>>
    /\ UNCHANGED <<mode, varsA, varsE, varsX, varsF, varsB>>

InitUpdate ==
    /\ rPc = "idle"
    /\ rRun = 0
    /\ rFaults = 0
    /\ rFindFault = NoFault
    /\ container = <<>>
    /\ stored = EmptyRegistry
    /\ rRegistry = EmptyRegistry
    /\ rListed = <<>>
    /\ new_files = <<>>
    /\ rTransactions = <<>>
    /\ rSearch = None
    /\ rIndex = <<>>
    /\ rResult = None
    /\ stored0 = EmptyRegistry
    /\ index0 = <<>>
    /\ prevResult = None
    /\ prevFiles = <<>>

NextUpdate ==
    \/ CallUpdate
    \/ CallUpdateAgain
    \/ ProcessFiles
    \/ UpdateIndex
    \/ FinishUpdate
    \/ UpdateRaises

(***************************************************************************)
(* Parses side by side                                                     *)
(***************************************************************************)
ConcPdfs == {
    Unreadable,
    Pdf(<<Header(1)>> \o FullPage),
    Pdf(<<Header(1)>> \o BadAmountPage \o <<Header(2)>> \o SinglePartyPage)
}

ConcRows == {
    << <<"Pay Date:", "06/02/2025">>, Blank, <<"CAMPUS HEALTH PHARMACY">> >>,
    << <<"Central Pay">> >>,
    << <<"Acme Corp", " (Check # - ", "9911", ")">>, Blank, <<"250.00">> >>,
    << <<"Processing Fee">>, <<"5.00">> >>,
    << Blank, <<"Payment Amount">>, <<"245.00">> >>
}

\* a call of process_file while other parses are under way
CallParseBeside(p) ==
    /\ mode = "concurrent"
    /\ \E pdf \in ConcPdfs : CallParse(p, "process_file", pdf)
    /\ UNCHANGED <<mode, varsA, varsE, varsF, varsB, varsR>>

NextConc ==
    \/ \E p \in Procs : CallParseBeside(p)
    \/ \E p \in Procs : PageStep(p)
    \/ \E p \in Procs : ReturnParse(p)
    \/ ReadExcelFails
    \/ ReadExcel
    \/ \E row \in ConcRows : ProcessRow(row)
    \/ EndOfRows
    \/ Validate
    \/ Lookup

(***************************************************************************)
(* The specifications                                                      *)
(***************************************************************************)
Init ==
    /\ mode = "sequential"
    /\ InitAlignRx /\ InitEDI /\ InitExtract /\ InitFormat /\ InitBatch
    /\ InitUpdate

Next ==
    \/ NextAlignRx \/ NextEDI \/ NextExtract \/ NextFormat \/ NextBatch
    \/ NextUpdate

Spec == Init /\ [][Next]_vars

InitConc ==
    /\ mode = "concurrent"
    /\ InitAlignRx /\ InitEDI /\ InitExtract /\ InitFormat /\ InitBatch
    /\ InitUpdate

SpecConc == InitConc /\ [][NextConc]_vars

(***************************************************************************)
(* Properties                                                              *)
(***************************************************************************)
Populated(rd) ==
    rd.date # None /\ rd.destination # None /\ rd.payment_amount # None

\* the error message names field f
Named(msg, f) == \E i \in 1..Len(msg.missing) : msg.missing[i] = f

ReturnedComplete ==
    /\ aOutcome = "returned"
    /\ aResult = Some(report_data)
    /\ state = "DONE"
    /\ Populated(report_data)

ValidationError ==
    /\ aOutcome = "ValueError"
    /\ aResult = None
    /\ aError # None
    /\ aError[1].missing # <<>>
    /\ aError[1].final_state = state
    /\ \A f \in {"date", "destination", "payment_amount"} :
          report_data[f] = None => Named(aError[1], f)

DuplicateRejected ==
    /\ aOutcome = "DuplicateReportError"
    /\ aResult = None
    /\ lookups # <<>>
    /\ state = "DONE"
    /\ Populated(report_data)

\* C1 as stated: once the sheet was read, parse_excel_report either returns
\* a report that ended in DONE with date, destination and payment_amount
\* populated, or raises a validation error naming every missing field and
\* the final state.
C1_Original ==
    (aPc = "done" /\ aOutcome # "None") => ReturnedComplete \/ ValidationError

\* C1 (amended): once the sheet was read, parse_excel_report ends in one of
\* three ways: it returns a report that ended in DONE with the three required
\* fields populated, it raises a validation error naming every missing field
\* and the final state, or it raises DuplicateReportError for a complete
\* report that ended in DONE; whatever it returns is complete and DONE.
C1_Termination ==
    /\ (aPc = "done" /\ aOutcome # "None") =>
          ReturnedComplete \/ ValidationError \/ DuplicateRejected
    /\ aResult # None => state = "DONE" /\ Populated(aResult[1])

C1_Witness ==
    /\ aOutcome = "returned"
    /\ state = "DONE"
    /\ Len(aResult[1].central_payments) = 1

\* C2: every change of the parser state goes from a state to its immediate
\* successor in SCANNING, FIND_CENTRAL_PAY, PARSE_CENTRAL_PAY, FIND_TOTAL,
\* DONE: never backward, never skipping a state.
C2_Forward ==
    [][state' = state
       \/ \E i \in 1..4 : state = States[i] /\ state' = States[i + 1]]_vars

C2_Witness == aPc = "validate" /\ state = "DONE" /\ nRows = 4

\* the index document has the report's date, destination and amount
MatchingDoc(doc, rd) ==
    /\ Some(doc.pay_date.day) = rd.date
    /\ Some(doc.destination) = rd.destination
    /\ Some(doc.payment_amount) = rd.payment_amount

\* C3: when a valid report was parsed and the index holds a record of the
\* same date (any time of that day), destination and payment amount, and the
\* lookup did not fail, parse_excel_report raises DuplicateReportError and
\* returns no report.
C3_DuplicateRejected ==
    (/\ aPc = "done"
     /\ lookups # <<>>
     /\ ~lookupFailed
     /\ \E doc \in searchIndex : MatchingDoc(doc, report_data))
    => (aOutcome = "DuplicateReportError" /\ aResult = None)

C3_Witness ==
    /\ aOutcome = "DuplicateReportError"
    /\ \E doc \in searchIndex :
          MatchingDoc(doc, report_data) /\ doc.pay_date.sec # 0

\* C4: when the index call of the duplicate lookup raises, the failure is
\* treated as "not a duplicate": parse_excel_report returns the valid report.
C4_FailOpen ==
    (aPc = "done" /\ lookupFailed)
    => (aOutcome = "returned" /\ aResult = Some(report_data))

C4_Witness ==
    /\ lookupFailed
    /\ aOutcome = "returned"
    /\ \E doc \in searchIndex : MatchingDoc(doc, report_data)

FileCheckFailed == checkFailed \cap {"file_chs", "file_master"} # {}

\* C5 as stated: the composite-key check is the only duplicate check whose
\* own failure lets the data through; a failed file-level check and a failed
\* trace-number check never end with the data accepted as non-duplicate.
C5_Original ==
    /\ (aPc = "done" /\ lookupFailed) => aOutcome = "returned"
    /\ FileCheckFailed => eOutcome # "returned"
    /\ "trace" \in checkFailed =>
          ~(eOutcome = "returned" /\ eResult[1].chs_duplicate = FALSE)

\* C5 (amended): two of the three duplicate checks fail open: a failed
\* composite-key lookup lets the report through, and a failed trace-number
\* check lets the file through with chs_duplicate = false; only a failed
\* file-level check never ends with the data accepted.
C5_FailOpenChecks ==
    /\ (aPc = "done" /\ lookupFailed) => aOutcome = "returned"
    /\ FileCheckFailed => eOutcome # "returned" /\ eResult = None
    /\ "trace" \in checkFailed =>
          /\ eOutcome = "returned"
          /\ eResult[1].chs_duplicate = FALSE
          /\ eResult[1].chs_transaction_count > 0

C5_Witness ==
    /\ "trace" \in checkFailed
    /\ eOutcome = "returned"
    /\ \E i \in 1..Len(extracted[1].chs_trace_numbers) :
          extracted[1].chs_trace_numbers[i] \in chsTraces

\* C6: while the file name is present in the CHS index or in the master
\* index, the file is never read, nothing is extracted and nothing is
\* returned; parse_edi_file ends with DuplicateReportError naming the file
\* (unless the file-level lookup itself raised).
C6_FileLevelDuplicate ==
    (ePc # "idle" /\ filename \in chsFiles \cup masterFiles) =>
       /\ ~fileRead
       /\ extracted = None
       /\ eResult = None
       /\ (ePc = "done" /\ ~FileCheckFailed) =>
             /\ eOutcome = "DuplicateReportError"
             /\ eError[1].file = filename

C6_Witness ==
    /\ eOutcome = "DuplicateReportError"
    /\ filename \in masterFiles
    /\ filename \notin chsFiles

\* the returned all_transactions is the extracted list, entry by entry
AllTransactionsUnchanged ==
    LET all == extracted[1].all_transactions
        out == eResult[1].all_transactions
    IN /\ Len(out) = Len(all)
       /\ eResult[1].all_transaction_count = Len(all)
       /\ \A i \in 1..Len(all) :
             /\ out[i].trace_number = all[i][1]
             /\ out[i].amount = all[i][2]
             /\ out[i].originator = all[i][3]
             /\ out[i].line_items = all[i][4]

\* C7: when the trace-number check answers that CHS trace numbers exist,
\* parse_edi_file does not raise: it returns the complete all_transactions
\* list with chs_duplicate = true; chs_duplicate is false when the CHS
\* trace-number list is empty or the check answers no match.
C7_TraceDuplicate ==
    ePc = "done" =>
       /\ traceAnswer = Some(TRUE) =>
             /\ eOutcome = "returned"
             /\ eResult[1].chs_duplicate = TRUE
             /\ AllTransactionsUnchanged
       /\ (/\ eOutcome = "returned"
           /\ \/ extracted[1].chs_trace_numbers = <<>>
              \/ traceAnswer = Some(FALSE))
          => eResult[1].chs_duplicate = FALSE

C7_Witness ==
    /\ traceAnswer = Some(TRUE)
    /\ eOutcome = "returned"
    /\ eResult[1].all_transaction_count = 2
    /\ eResult[1].chs_transaction_count = 1

\* a duplicate was detected by parse_excel_report
ADuplicate ==
    /\ lookups # <<>>
    /\ ~lookupFailed
    /\ \E doc \in searchIndex : MatchingDoc(doc, report_data)

\* the sheet was read and a required field is missing
AInvalid ==
    /\ aOutcome # "None"
    /\ \/ report_data.date = None
       \/ report_data.destination = None
       \/ report_data.payment_amount = None
       \/ report_data.payment_amount = Some(0)

\* a duplicate was detected by parse_edi_file
EDuplicate ==
    \/ "file_chs" \notin checkFailed /\ filename \in chsFiles
    \/ /\ ~FileCheckFailed
       /\ filename \notin chsFiles
       /\ filename \in masterFiles
    \/ raised = Some("DuplicateReportError")

\* reading or extracting the EDI document failed
EMalformed == raised # None /\ raised # Some("DuplicateReportError")

ErrorTypesDistinct ==
    /\ aPc = "done" =>
          /\ ADuplicate <=> aOutcome = "DuplicateReportError"
          /\ AInvalid <=> aOutcome = "ValueError"
    /\ ePc = "done" =>
          /\ EDuplicate <=> eOutcome = "DuplicateReportError"
          /\ EMalformed <=> eOutcome = "ValueError"

\* C8 as stated: a duplicate always ends in DuplicateReportError and a
\* malformed or unparseable document always in ValueError, and neither is
\* ever reported as the other.
C8_Original ==
    /\ ErrorTypesDistinct
    /\ aPc = "done" => aOutcome # "None"

\* C8 (amended): a detected duplicate always ends in DuplicateReportError,
\* and a document that was read but fails parsing or validation always in
\* ValueError, neither ever reported as the other; a spreadsheet that cannot
\* be read at all makes parse_excel_report return None without any error.
C8_ErrorTypes ==
    /\ ErrorTypesDistinct
    /\ (aPc = "done" /\ aOutcome = "None") =>
          aResult = None /\ aError = None /\ lookups = <<>>

C8_Witness == aPc = "done" /\ aOutcome = "None"

\* C9: if the file cannot be read, extraction yields no transaction, or
\* extraction fails with anything but a duplicate, parse_edi_file raises
\* ValueError with the file name in its message and returns no dictionary.
C9_HardFailure ==
    (ePc = "done" /\ EMalformed) =>
       /\ eOutcome = "ValueError"
       /\ eError # None
       /\ eError[1].file = filename
       /\ eResult = None

C9_Witness ==
    /\ raised = Some("ValueError")
    /\ eOutcome = "ValueError"
    /\ fileRead

\* the payments that the rows seen in PARSE_CENTRAL_PAY with a numeric last
\* cell stand for, in row order
RECURSIVE PaymentsOf(_)
PaymentsOf(log) ==
    IF log = <<>> THEN <<>>
    ELSE LET cells == row_cells_of(Head(log).row)
             last_cell == cells[Len(cells)]
         IN IF Head(log).state = "PARSE_CENTRAL_PAY" /\ float_ok(last_cell)
            THEN << [sender |-> cells[1][1], check_num |-> cells[1][3],
                     amount |-> float(last_cell)] >> \o PaymentsOf(Tail(log))
            ELSE PaymentsOf(Tail(log))

\* C10: central_payments holds exactly one entry, in row order, for each row
\* seen in PARSE_CENTRAL_PAY whose first cell has the payment-line shape and
\* whose last cell parses as a number; payment-shaped rows seen in any other
\* state add nothing.
C10_CentralPayments == report_data.central_payments = PaymentsOf(seen)

C10_Witness ==
    /\ Len(report_data.central_payments) = 2
    /\ report_data.central_payments[1] # report_data.central_payments[2]
    /\ Len(seen) = 3
    /\ seen[1].state = "SCANNING"

(***************************************************************************)
(* The PDF extractors                                                      *)
(***************************************************************************)
\* the call of process_file by p has returned its transactions
FinishedProcessFile(p) ==
    xPc[p] = "done" /\ xCaller[p] = "process_file" /\ xOutcome[p] = "returned"

\* the first credit-amount field of the page, if there is one
FirstCredit(page_text) ==
    { i \in 1..Len(page_text) :
        /\ page_text[i].label = "CREDIT:"
        /\ page_text[i].text \in DOMAIN CreditGroup
        /\ \A j \in 1..(i - 1) :
              ~(page_text[j].label = "CREDIT:"
                /\ page_text[j].text \in DOMAIN CreditGroup) }

\* the credit-amount field is present and its amount parses
CreditParses(page_text) ==
    \E i \in FirstCredit(page_text) :
        NoCommas[CreditGroup[page_text[i].text]] \in DOMAIN FloatCents

\* the candidate chunks of a call: its pages that hold both labels
CandidatePages(p) ==
    { i \in 1..Len(pages[p]) : IsTransactionPage(pages[p][i]) }

AmountText(page_text) ==
    NoCommas[CreditGroup[
        findall(Patterns, "credit_amount", page_text)[1].text]]

\* C12: no Transaction of either extractor comes from a chunk whose
\* credit-amount capture is not a number once the commas are removed.
C12_NoSubstitutedAmount ==
    \A p \in Procs : \A k \in 1..Len(transactions[p]) :
        AmountText(pages[p][xFrom[p][k]]) \in DOMAIN FloatCents

\* the values printed under a repeated label, in the order of the page
Occurrences(page_text, label) ==
    SelectSeq(page_text,
              LAMBDA tok : tok.label = label /\ tok.text \in DigitTexts)

NthOrEmpty(occ, n) == IF Len(occ) >= n THEN occ[n].text ELSE ""

\* C13 as stated: the debit company id is the second occurrence, and empty
\* when there are fewer than two.
C13_Original ==
    \A p \in Procs : \A k \in 1..Len(transactions[p]) :
        LET page_text == pages[p][xFrom[p][k]]
            t == transactions[p][k]
        IN  /\ t.routing_id_credit =
                   NthOrEmpty(Occurrences(page_text, "ROUTING ID:"), 1)
            /\ t.routing_id_debit =
                   NthOrEmpty(Occurrences(page_text, "ROUTING ID:"), 2)
            /\ t.company_id_debit =
                   NthOrEmpty(Occurrences(page_text, "COMPANY ID:"), 2)

\* C13: the first routing id goes to the credit party and the second to the
\* debit party, routing_id_debit staying empty with fewer than two; the
\* debit company id is the second company id when there are two, the only
\* one when there is one, and empty when there is none.
C13_RepeatedLabels ==
    \A p \in Procs : \A k \in 1..Len(transactions[p]) :
        LET page_text == pages[p][xFrom[p][k]]
            t == transactions[p][k]
            company_ids == Occurrences(page_text, "COMPANY ID:")
        IN  /\ t.routing_id_credit =
                   NthOrEmpty(Occurrences(page_text, "ROUTING ID:"), 1)
            /\ t.routing_id_debit =
                   NthOrEmpty(Occurrences(page_text, "ROUTING ID:"), 2)
            /\ t.company_id_debit =
                   IF Len(company_ids) >= 2 THEN company_ids[2].text
                   ELSE NthOrEmpty(company_ids, 1)

\* a Transaction from a chunk with one routing id and one company id
C13_Witness ==
    \E k \in 1..Len(transactions[1]) :
        /\ Len(Occurrences(pages[1][xFrom[1][k]], "ROUTING ID:")) = 1
        /\ Len(Occurrences(pages[1][xFrom[1][k]], "COMPANY ID:")) = 1
        /\ transactions[1][k].routing_id_debit = ""
        /\ transactions[1][k].company_id_debit # ""

\* the text has the form YYYY-MM-DD
IsoShaped(c) ==
    /\ Len(c) = 10
    /\ \A i \in {1, 2, 3, 4, 6, 7, 9, 10} : c[i] \in DOMAIN DigitValue
    /\ c[5] = "-" /\ c[8] = "-"

\* the text is a valid date of the form MM/DD/YYYY
ValidMDY(c) == Len(c) = 10 /\ DateShaped(c) /\ strptime(c) # None

\* C14: _format_date turns a valid MM/DD/YYYY text into YYYY-MM-DD with the
\* same year, month and day, returns a text that does not parse (the empty
\* one included) unchanged, and applied to its own result returns it
\* unchanged.
C14_DateNormalization ==
    /\ (fCalls >= 1 /\ ValidMDY(date_str)) =>
          /\ IsoShaped(formatted)
          /\ SubSeq(formatted, 1, 4) = SubSeq(date_str, 7, 10)
          /\ SubSeq(formatted, 6, 7) = SubSeq(date_str, 1, 2)
          /\ SubSeq(formatted, 9, 10) = SubSeq(date_str, 4, 5)
    /\ (fCalls >= 1 /\ strptime(date_str) = None) => formatted = date_str
    /\ fCalls = 2 => formatted = format_date(date_str)

\* the document carries the fields of the transaction dictionary
SameTransaction(doc, t) ==
    /\ doc.trace_number = t.trace_number
    /\ doc.amount = t.amount
    /\ doc.originator = t.originator
    /\ doc.file_name = t.file_name

\* C15: the Transactions of a report come from pages of increasing position,
\* the k-th one being the parse of the k-th page that gave one; the
\* dictionaries parse_edi_file returns stand in the order of the extracted
\* transactions; the documents index_transactions prepares stand in the
\* order of the list it was given; the documents
\* update_search_index_incrementally prepares stand in the order of the new
\* transactions and carry consecutive numbers.
C15_DocumentOrder ==
    /\ \A p \in Procs :
          /\ Len(xFrom[p]) = Len(transactions[p])
          /\ \A k \in 1..Len(xFrom[p]) :
                /\ k > 1 => xFrom[p][k - 1] < xFrom[p][k]
                /\ Some(transactions[p][k]) =
                       ParserOf(xCaller[p], Patterns,
                                pages[p][xFrom[p][k]], FileOf[p])
    /\ eOutcome = "returned" =>
          \A list \in {"all_transactions", "chs_transactions"} :
              /\ Len(eResult[1][list]) = Len(extracted[1][list])
              /\ \A i \in 1..Len(eResult[1][list]) :
                    /\ eResult[1][list][i].trace_number =
                           extracted[1][list][i][1]
                    /\ eResult[1][list][i].amount = extracted[1][list][i][2]
    /\ ePc = "indexed" =>
          /\ Len(iDocs) = Len(eResult[1][iList])
          /\ \A i \in 1..Len(iDocs) :
                SameTransaction(iDocs[i], eResult[1][iList][i])
    /\ (bPc = "updated" /\ uDocs # <<>>) =>
          /\ Len(uDocs) = Len(bTransactions)
          /\ \A i \in 1..Len(uDocs) :
                /\ SameTransaction(uDocs[i], bTransactions[i])
                /\ uDocs[i].page_number = bTransactions[i].page_number
                /\ i > 1 => int(uDocs[i].id) = int(uDocs[i - 1].id) + 1

\* three documents were prepared from two reports, the first one unlike the
\* others
C15_Witness ==
    /\ bPc = "updated"
    /\ Len(uDocs) = 3
    /\ uDocs[1].trace_number # uDocs[2].trace_number
    /\ uDocs[2].page_number # uDocs[3].page_number

\* the positions of the PAYMENT INFORMATION: labels in the text of a report
LabelPositions(text) ==
    { i \in 1..Len(text) : text[i].label = "PAYMENT INFORMATION:" }

\* the text of a report from its first PAYMENT INFORMATION: label on, the
\* page headers taken out
ChunkText(text) ==
    LET first == CHOOSE i \in LabelPositions(text) :
                     \A j \in LabelPositions(text) : i <= j
    IN  SelectSeq(SubSeq(text, first, Len(text)),
                  LAMBDA tok : tok.label # HeaderLabel)

\* the text holds one transaction, printed under a page header, and the
\* header of the next page stands inside it
InterruptedTransaction(text) ==
    /\ Cardinality(LabelPositions(text)) = 1
    /\ \E g, h \in HeaderPositions(text), i \in LabelPositions(text) :
          /\ g < i
          /\ i < h
          /\ h < Len(text)
    /\ CreditParses(ChunkText(text))

\* C16: a report whose single PAYMENT INFORMATION: transaction is
\* interrupted by a page header gives exactly one Transaction, with the
\* fields printed on both sides of the header.
C16_TransactionAcrossPages ==
    \A p \in Procs :
        (FinishedProcessFile(p) /\ InterruptedTransaction(xPdf[p].text)) =>
            /\ Len(transactions[p]) = 1
            /\ transactions[p][1].trace_number =
                   extract_field(Patterns, "trace_number",
                                 ChunkText(xPdf[p].text))
            /\ transactions[p][1].originator =
                   extract_field(Patterns, "originator",
                                 ChunkText(xPdf[p].text))
            /\ transactions[p][1].routing_id_debit =
                   NthOrEmpty(Occurrences(ChunkText(xPdf[p].text),
                                          "ROUTING ID:"), 2)

\* the positions of the allow-list members among the extracted transactions
Members(txs) == { i \in 1..Len(txs) : txs[i][3] \in CHS_ORIGINATORS }

\* the number of allow-list members up to position i
Rank(txs, i) == Cardinality({ j \in Members(txs) : j <= i })

\* C17: when parse_edi_file returns, chs_transactions holds, in order, one
\* dictionary for each extracted transaction whose originator is literally
\* in the allow-list, with line_items empty; all_transactions holds every
\* extracted transaction with its own line_items; and the two counts are
\* the lengths of the two lists.
C17_ChsPartition ==
    eOutcome = "returned" =>
        LET all == extracted[1].all_transactions
            r == eResult[1]
        IN  /\ Len(r.chs_transactions) = Cardinality(Members(all))
            /\ \A i \in Members(all) :
                  r.chs_transactions[Rank(all, i)] =
                      [trace_number |-> all[i][1], amount |-> all[i][2],
                       originator |-> all[i][3], line_items |-> <<>>,
                       file_name |-> filename]
            /\ Len(r.all_transactions) = Len(all)
            /\ \A i \in 1..Len(all) :
                  r.all_transactions[i] =
                      [trace_number |-> all[i][1], amount |-> all[i][2],
                       originator |-> all[i][3], line_items |-> all[i][4],
                       file_name |-> filename]
            /\ r.all_transaction_count = Len(r.all_transactions)
            /\ r.chs_transaction_count = Len(r.chs_transactions)

\* a member with line items was copied, and a transaction whose originator
\* differs from a member only by case was left out
C17_Witness ==
    /\ eOutcome = "returned"
    /\ Len(eResult[1].all_transactions) = 2
    /\ Len(eResult[1].chs_transactions) = 1
    /\ eResult[1].all_transactions[1].originator = "bcbs of nc"
    /\ eResult[1].all_transactions[2].originator = "NC Medicaid"
    /\ eResult[1].all_transactions[2].line_items # <<>>
    /\ eResult[1].chs_transactions[1].line_items = <<>>

\* the bytes of the blob were downloaded and cannot be decoded
Undecodable(blob) == blob.downloads /\ ~blob.pdf.readable

\* C18: the text of bytes that cannot be decoded is the empty text;
\* process_file then returns no transaction; and a pass of process_all_blobs
\* or process_files_incrementally over such a blob leaves the collected
\* transactions as they are and stays in the loop, at the next blob.
C18_FailSoft ==
    /\ [](\A p \in Procs :
            (xPc[p] = "done" /\ xCaller[p] = "process_file"
             /\ ~xPdf[p].readable) =>
                /\ extract_text_from_pdf(xPdf[p]) = <<>>
                /\ xOutcome[p] = "returned"
                /\ transactions[p] = <<>>)
    /\ [][(bPc = "loop" /\ bI <= Len(blobs) /\ bI' = bI + 1
           /\ Undecodable(blobs[bI])) =>
              /\ extract_text_from_pdf(blobs[bI].pdf) = <<>>
              /\ bTransactions' = bTransactions
              /\ bPc' = "loop"]_vars

\* the first blob could not be decoded and the batch still returned the
\* transactions of a later one
C18_Witness ==
    /\ bPc = "done"
    /\ Len(blobs) = 2
    /\ Undecodable(blobs[1])
    /\ 1 \in bSkipped
    /\ bI = 3
    /\ bTransactions # <<>>

\* what process_file returns for a PDF when no other parse is under way
Alone(pdf, file_name) ==
    PageLoop("process_file", Patterns,
             split_pages(extract_text_from_pdf(pdf)), file_name)

\* the state of one call of process_file
CallState(p) ==
    <<xPc[p], xCaller[p], xPdf[p], pages[p], xI[p], transactions[p],
      xFrom[p], xOutcome[p]>>

Destinations == {"CAMPUS HEALTH PHARMACY", "STUDENT STORES PHARMACY"}

\* the row holds 'Pay Date:' and one of the two destination names
HeaderRow(row) ==
    /\ RowContains(row_cells_of(row), "Pay Date:")
    /\ \E d \in Destinations : RowContains(row_cells_of(row), d)

\* the cells of the row that begin with 'Pay Date:'
PayDateCells(row) ==
    SelectSeq(row_cells_of(row), LAMBDA c : StartsWith(c, "Pay Date:"))

\* the last of them holds a date that parses
DateParsed(row) ==
    /\ PayDateCells(row) # <<>>
    /\ strptime_ok(Remove(PayDateCells(row)[Len(PayDateCells(row))],
                          "Pay Date:"))

ReturnedDestination ==
    aOutcome = "returned" =>
        \E d \in Destinations : aResult[1].destination = Some(d)

\* C20 as stated: in SCANNING every row with 'Pay Date:' and a destination
\* name moves the parser to FIND_CENTRAL_PAY with date and destination set.
C20_Original ==
    /\ [][\A row \in Rows :
            (state = "SCANNING" /\ ProcessRow(row)) =>
                IF HeaderRow(row)
                THEN /\ state' = "FIND_CENTRAL_PAY"
                     /\ report_data'.date # None
                     /\ \E d \in Destinations :
                           report_data'.destination = Some(d)
                ELSE state' = "SCANNING"]_vars
    /\ []ReturnedDestination

\* C20: in SCANNING a row with 'Pay Date:' and a destination name has its
\* destination recorded; when its cell beginning with 'Pay Date:' holds a
\* date that parses, the date is recorded too and the parser moves to
\* FIND_CENTRAL_PAY, and otherwise the date stays empty and the state stays
\* SCANNING; any other row leaves state and record as they are; and the
\* destination of a returned report is one of the two names.
C20_HeaderRow ==
    /\ [][\A row \in Rows :
            (state = "SCANNING" /\ ProcessRow(row)) =>
                IF HeaderRow(row)
                THEN /\ \E d \in Destinations :
                           report_data'.destination = Some(d)
                     /\ IF DateParsed(row)
                        THEN /\ state' = "FIND_CENTRAL_PAY"
                             /\ report_data'.date # None
                        ELSE /\ state' = "SCANNING"
                             /\ report_data'.date = None
                ELSE /\ state' = "SCANNING"
                     /\ report_data' = report_data]_vars
    /\ []ReturnedDestination

\* a header row whose date did not parse was read: the destination is
\* recorded and the parser is still scanning
C20_Witness ==
    /\ aPc = "loop"
    /\ state = "SCANNING"
    /\ nRows = 1
    /\ report_data.destination = Some("CAMPUS HEALTH PHARMACY")
    /\ report_data.date = None

(***************************************************************************)
(* The central-pay section and the total of the AlignRx sheet              *)
(***************************************************************************)
\* row_cells[0] of a row that is not skipped as empty
FirstCell(row) == row_cells_of(row)[1]

\* row_cells[-1]
LastCell(row) == row_cells_of(row)[Len(row_cells_of(row))]

\* the row is skipped by `if not row_cells: continue`
EmptyRow(row) == row_cells_of(row) = <<>>

\* the row is taken for a payment line
PaymentLine(row) == ~EmptyRow(row) /\ payment_line_re(FirstCell(row))

\* the row is taken for the fee line
FeeLine(row) ==
    /\ ~EmptyRow(row)
    /\ ~payment_line_re(FirstCell(row))
    /\ Contains(FirstCell(row), "Processing Fee")

\* C21 as stated: in PARSE_CENTRAL_PAY a row whose first cell reads
\* 'Processing Fee' sets processing_fee and moves to FIND_TOTAL; a row that
\* is neither a payment line nor the fee line changes nothing; a payment
\* line whose amount does not parse adds no payment and keeps the state.
C21_Original ==
    [][\A row \in Rows :
         (state = "PARSE_CENTRAL_PAY" /\ ProcessRow(row)) =>
            IF FeeLine(row)
            THEN /\ report_data'.processing_fee # None
                 /\ state' = "FIND_TOTAL"
            ELSE IF PaymentLine(row) /\ float_ok(LastCell(row))
                 THEN state' = "PARSE_CENTRAL_PAY"
                 ELSE /\ state' = "PARSE_CENTRAL_PAY"
                      /\ report_data' = report_data]_vars

\* C21: in PARSE_CENTRAL_PAY a row whose first cell holds 'Processing Fee'
\* (and is not a payment line) moves the parser to FIND_TOTAL, with
\* processing_fee set to its amount when the amount parses and left empty
\* when it does not, and changes no other field; a row that is neither a
\* payment line nor the fee line changes neither state nor record; a payment
\* line whose amount does not parse adds no payment and keeps the state.
C21_FeeRow ==
    [][\A row \in Rows :
         (state = "PARSE_CENTRAL_PAY" /\ ProcessRow(row)) =>
            IF FeeLine(row)
            THEN /\ state' = "FIND_TOTAL"
                 /\ report_data' =
                      [report_data EXCEPT !.processing_fee =
                          IF float_ok(LastCell(row))
                          THEN Some(float(LastCell(row))) ELSE None]
            ELSE IF PaymentLine(row) /\ float_ok(LastCell(row))
                 THEN state' = "PARSE_CENTRAL_PAY"
                 ELSE /\ state' = "PARSE_CENTRAL_PAY"
                      /\ report_data' = report_data]_vars

\* the fee line was read with an amount that does not parse, after a payment
\* line whose amount did not parse either
C21_Witness ==
    /\ aPc = "loop"
    /\ state = "FIND_TOTAL"
    /\ report_data.processing_fee = None
    /\ report_data.central_payments = <<>>
    /\ Len(seen) = 1
    /\ seen[1].state = "PARSE_CENTRAL_PAY"


\* the row is taken for the total line
TotalLine(row) ==
    ~EmptyRow(row) /\ Contains(FirstCell(row), "Payment Amount")

\* the scan is over: no row is taken and the record stays as it is
ScanEnded ==
    /\ [](state = "DONE" => aPc \in {"validate", "lookup", "done"})
    /\ [][state = "DONE" =>
             /\ report_data' = report_data
             /\ nRows' = nRows
             /\ state' = "DONE"]_vars
    /\ [](aOutcome = "returned" => aResult = Some(report_data))

\* C22 as stated: in FIND_TOTAL the first row whose first cell reads
\* 'Payment Amount' sets payment_amount, moves to DONE and ends the scan, and
\* no row is read after it.
C22_Original ==
    /\ [][\A row \in Rows :
            (state = "FIND_TOTAL" /\ ProcessRow(row) /\ TotalLine(row)) =>
               /\ report_data'.payment_amount # None
               /\ state' = "DONE"
               /\ aPc' = "validate"]_vars
    /\ ScanEnded

\* C22: in FIND_TOTAL the first row whose first cell holds 'Payment Amount'
\* moves the parser to DONE and ends the scan, with payment_amount set to
\* its amount when the amount parses and left empty when it does not; any
\* other row changes nothing; once in DONE no row is read and no field of
\* the record changes, so the returned report is the record as that row
\* left it.
C22_TotalRow ==
    /\ [][\A row \in Rows :
            (state = "FIND_TOTAL" /\ ProcessRow(row)) =>
               IF TotalLine(row)
               THEN /\ state' = "DONE"
                    /\ aPc' = "validate"
                    /\ report_data' =
                         [report_data EXCEPT !.payment_amount =
                             IF float_ok(LastCell(row))
                             THEN Some(float(LastCell(row))) ELSE None]
               ELSE /\ state' = "FIND_TOTAL"
                    /\ aPc' = "loop"
                    /\ report_data' = report_data]_vars
    /\ ScanEnded

\* the total line was read before the sheet was exhausted, and its amount
\* did not parse
C22_Witness ==
    /\ state = "DONE"
    /\ aPc = "validate"
    /\ nRows < MaxRows
    /\ report_data.payment_amount = None
    /\ report_data.processing_fee # None


\* the required fields the scan left empty, in the order of the check
Uncaptured(rd) == SelectSeq(required_fields, LAMBDA f : rd[f] = None)

\* C23: the terminal validation fails exactly when one of date, destination
\* and payment_amount was not captured by the scan, whatever the captured
\* values are (a payment amount of 0 included), and the error lists exactly
\* the fields that were not captured.
C23_ValidationOfCapturedFields ==
    (aPc \in {"lookup", "done"} /\ aOutcome # "None") =>
       /\ aOutcome = "ValueError" <=> ~Populated(report_data)
       /\ aOutcome = "ValueError" =>
             aError[1].missing = Uncaptured(report_data)


(***************************************************************************)
(* The incremental index update                                            *)
(***************************************************************************)
\* the elements of a list
Elements(s) == { s[i] : i \in 1..Len(s) }

\* the download of the file raises, or no text comes out of it
FailedFile(blob_name) ==
    \/ ~BlobNamed(blob_name).downloads
    \/ extract_text_from_pdf(BlobNamed(blob_name).pdf) = <<>>

\* the update went through all its steps and returned its summary
UpdateReturned ==
    rPc = "done" /\ rSearch # None /\ rResult # None /\ rResult[1].error = None

\* the transactions of every selected file that did not fail are among the
\* extracted ones
OthersProcessed ==
    \A n \in Elements(new_files) :
       ~FailedFile(n) =>
          \A t \in Elements(process_files_incrementally(patterns, <<n>>)) :
             t \in Elements(rTransactions)

\* the result tells the caller that the file failed
ReportedAsFailed(blob_name) ==
    ~(rResult[1].success /\ blob_name \in Elements(rResult[1].processed_files))

\* the update did not record the file in the stored registry
NotRecorded(blob_name) ==
    \/ blob_name \notin DOMAIN stored
    \/ blob_name \in DOMAIN stored0 /\ stored[blob_name] = stored0[blob_name]

\* C24: in an incremental update a file whose download or extraction fails
\* does not keep the other files from being processed, is reported to the
\* caller as failed, and is not recorded in the registry as processed.
C24_FailedFileReported ==
    UpdateReturned =>
       /\ OthersProcessed
       /\ \A n \in Elements(new_files) :
             FailedFile(n) => ReportedAsFailed(n) /\ NotRecorded(n)


(***************************************************************************)
(* index_transactions                                                      *)
(***************************************************************************)
\* index_transactions went through its loop over the transactions
DocumentsBuilt == ePc = "indexed" /\ iTransactions # <<>>

\* C25: index_transactions builds exactly one document per transaction, in
\* order; a document for 'edi-transactions' never carries line_items,
\* input_format or demand_account_credit; a document for 'master-edi'
\* carries each of them exactly when the transaction has it, with the
\* transaction's value.
C25_DocumentFields ==
    DocumentsBuilt =>
       /\ Len(iDocs) = Len(iTransactions)
       /\ \A i \in 1..Len(iDocs) :
             /\ iDocs[i].trace_number = iTransactions[i].trace_number
             /\ iDocs[i].id = uuid4(i)
             /\ iIndexName = "edi-transactions" =>
                   OptionalKeys \cap DOMAIN iDocs[i] = {}
             /\ iIndexName = "master-edi" =>
                   \A k \in OptionalKeys :
                      /\ k \in DOMAIN iDocs[i] <=> k \in DOMAIN iTransactions[i]
                      /\ k \in DOMAIN iDocs[i] =>
                            iDocs[i][k] = iTransactions[i][k]

\* two transactions carrying line items were prepared for the CHS index
C25_Witness ==
    /\ DocumentsBuilt
    /\ iIndexName = "edi-transactions"
    /\ Len(iDocs) = 2
    /\ "line_items" \in DOMAIN iTransactions[1]
    /\ iTransactions[1].line_items # <<>>

\* neither index took a document
NothingUploaded ==
    iUploaded["edi-transactions"] = <<>> /\ iUploaded["master-edi"] = <<>>

\* C26: index_transactions returns False and uploads nothing to either
\* index when the list is empty or the index name is neither
\* 'edi-transactions' nor 'master-edi'; it never raises; and it returns True
\* only when the upload to the selected index reported success, the other
\* index taking nothing.
C26_IndexingResult ==
    ePc = "indexed" =>
       /\ iOutcome = "returned"
       /\ iResult # None
       /\ (iTransactions = <<>>
           \/ iIndexName \notin {"edi-transactions", "master-edi"}) =>
             iResult = Some(FALSE) /\ NothingUploaded
       /\ iResult = Some(TRUE) =>
             /\ iIndexName \in {"edi-transactions", "master-edi"}
             /\ iUploaded[iIndexName] # <<>>
             /\ \A n \in DOMAIN iUploaded :
                   n # iIndexName => iUploaded[n] = <<>>

\* transactions were given with an index name that is not known
C26_Witness ==
    /\ ePc = "indexed"
    /\ iIndexName = "unknown-index"
    /\ iTransactions # <<>>
    /\ iDocs # <<>>
    /\ iResult = Some(FALSE)


(***************************************************************************)
(* The header fields after SCANNING, and the order of the final checks     *)
(***************************************************************************)
\* C27: outside SCANNING date and destination are populated and never
\* change again; a validation error raised with a final state other than
\* SCANNING names payment_amount and nothing else; payment_amount is
\* populated only in state DONE.
C27_HeaderFieldsSettled ==
    /\ [](state # "SCANNING" =>
            report_data.date # None /\ report_data.destination # None)
    /\ [][state # "SCANNING" =>
            /\ report_data'.date = report_data.date
            /\ report_data'.destination = report_data.destination]_vars
    /\ []((aOutcome = "ValueError" /\ aError[1].final_state # "SCANNING") =>
            aError[1].missing = <<"payment_amount">>)
    /\ [](report_data.payment_amount # None => state = "DONE")

\* the sheet ended inside the central-pay section
C27_Witness ==
    /\ aOutcome = "ValueError"
    /\ aError[1].final_state = "PARSE_CENTRAL_PAY"
    /\ report_data.central_payments # <<>>


\* C28: the required fields are validated before the duplicate lookup: the
\* lookup is made at most once per parse, only after the validation passed,
\* with date, destination and payment amount all populated; a report that
\* fails the validation triggers no lookup and ends in a validation error,
\* not in a duplicate error.
C28_ValidationBeforeLookup ==
    /\ [](Len(lookups) <= 1)
    /\ [][lookups' # lookups =>
            /\ aPc = "lookup"
            /\ missing_fields(report_data) = <<>>
            /\ lookups' = << <<report_data.date, report_data.destination,
                               report_data.payment_amount>> >> ]_vars
    /\ [](lookups # <<>> =>
            /\ lookups[1][1] # None
            /\ lookups[1][2] # None
            /\ lookups[1][3] # None)
    /\ []((aPc = "done" /\ aOutcome # "None"
           /\ missing_fields(report_data) # <<>>) =>
            /\ lookups = <<>>
            /\ aOutcome = "ValueError"
            /\ aResult = None)

\* the scan reached DONE and the validation failed: no lookup was made
C28_Witness ==
    /\ aOutcome = "ValueError"
    /\ state = "DONE"
    /\ report_data.payment_amount = None
    /\ lookups = <<>>
    /\ searchIndex = {}


\* the update ended without success: the upload failed or an exception
\* reached the outer handler
UpdateFailed == rPc = "done" /\ rResult # None /\ ~rResult[1].success

\* C29: the stored registry is written only after the upload step reported
\* success; when the upload fails or an exception occurs the stored registry
\* stays as it was, and the next update, loading and listing without
\* trouble, finds the same files as new or updated.
C29_RegistryAfterUpload ==
    /\ [][(rPc # "idle" /\ stored' # stored) =>
            /\ rPc = "indexed"
            /\ rSearch = Some(TRUE)
            /\ rResult'[1].success
            /\ rResult'[1].registry_updated = Some(TRUE)]_vars
    /\ [](UpdateFailed => stored = stored0)
    /\ [][(/\ UpdateFailed
           /\ rRun' = rRun + 1
           /\ rFindFault = NoFault
           /\ rFindFault' = NoFault) => new_files' = new_files]_vars

\* after an update whose upload failed, the next update selected the same
\* files again
C29_Witness ==
    /\ rRun = 2
    /\ rPc = "found"
    /\ prevResult # None
    /\ prevResult[1].message = "Failed to update search index"
    /\ new_files = prevFiles
    /\ Len(new_files) = 2
    /\ stored = stored0


\* the update before this one succeeded and saved the registry
SavedBefore(result) ==
    /\ result # None
    /\ result[1].success
    /\ result[1].registry_updated = Some(TRUE)

\* C30: a listed source file is selected exactly when it is absent from the
\* registry or its last_modified or size differs from the registry entry;
\* and after a successful update whose registry save succeeded, a further
\* update with the source container unchanged (loading and listing without
\* trouble) selects no file and adds no document to the index.
C30_NoFileIndexedTwice ==
    /\ [](/\ Elements(new_files) \subseteq Elements(rListed)
          /\ \A n \in Elements(rListed) :
                n \in Elements(new_files) <=> IsNewOrUpdated(rRegistry, n))
    /\ [][(/\ rPc = "done"
           /\ rRun' = rRun + 1
           /\ SavedBefore(rResult)
           /\ rFindFault = NoFault
           /\ rFindFault' = NoFault) => new_files' = <<>>]_vars
    /\ []((rRun >= 1 /\ new_files = <<>>) =>
            rPc = "done" /\ rResult = Some(NoNewFiles) /\ rIndex = index0)

====
